---- MODULE Spec2Model ----
(***************************************************************************)
(* GraphProcessor of power_system_simulation/graph_processing.py: an       *)
(* undirected networkx graph whose edges carry an id and an enabled flag,  *)
(* a source vertex, the construction checks, set_edge_enabled_status,      *)
(* find_downstream_vertices and find_alternative_edges.                    *)
(* The traversals of is_cyclic and is_connected are also followed one loop *)
(* iteration at a time (SpecTraversal), and validate_power_grid_data of    *)
(* input_data_validation.py and optimum_tap_position of                    *)
(* power_grid_calculation.py are modelled over small grids (SpecGrid).     *)
(***************************************************************************)
EXTENDS Integers, Sequences, FiniteSets, TLC

\* Bounds of the model.
MaxV == 3       \* at most MaxV vertices, named 1..MaxV
MaxE == 3       \* at most MaxE edges, with ids 1..MaxE
MaxLen == 2     \* list length and id range of the unvalidated constructor inputs

VARIABLES
    pc,         \* "new": constructor not yet run, "ready": object built, "failed": constructor raised
    args,       \* the arguments of the pending (or failed) constructor call; of a
                \* call that succeeded, the edge ids that were supplied
    graph,      \* the GraphProcessor object: nodes, adj, data, source_vertex_id
    raised,     \* the exception raised by the constructor, or NoError
    call,       \* the call the caller has just made, with its return value or exception
    frame       \* the local variables of a traversal that is followed step by step

vars == <<pc, args, graph, raised, call, frame>>

-----------------------------------------------------------------------------
\* Exceptions (graph_processing.py:11-32) with the messages the code raises:
\* msg is the text of the string literal, refs the values an f-string formats
\* into it, none for a plain literal.

ErrorOf(t, m, refs) == [type |-> t, msg |-> m, refs |-> refs]
Error(t, m) == ErrorOf(t, m, <<>>)
NoError == Error("None", "")

ErrVertexIdsNotUnique == Error("IDNotUniqueError", "Input list vertex_ids contains a duplicate id.")
ErrEdgeIdsNotUnique == Error("IDNotUniqueError", "Input list edge_ids contains a duplicate id.")
ErrPairsLength ==
    Error("InputLengthDoesNotMatchError",
          "The length of edge_ids does not match the length of edge_vertex_id_pairs.")
ErrPairsVertex == Error("IDNotFoundError", "edge_vertex_id_pairs contains a non-existent vertex ID.")
ErrEnabledLength ==
    Error("InputLengthDoesNotMatchError",
          "The length of edge_ids does not match the length of edge_enabled.")
ErrSourceVertex == Error("IDNotFoundError", "The provided source_vertex_id is not in the vertex_ids list.")
ErrNotConnected == Error("GraphNotFullyConnectedError", "The graph is not fully connected.")
ErrCycle == Error("GraphCycleError", "The graph contains a cycle.")
ErrAlreadyDisabled(edge_id) ==
    ErrorOf("EdgeAlreadyDisabledError", "The chosen edge {edge_id} is already disabled.", <<edge_id>>)
ErrEdgeNotInList(edge_id) ==
    ErrorOf("IDNotFoundError", "The chosen edge {edge_id} is not in the ID list.", <<edge_id>>)
ErrProvidedIdNotInList == Error("IDNotFoundError", "The provided ID is not in the edge_ids list.")
ErrKeyError == Error("KeyError", "active_nodes.remove")

-----------------------------------------------------------------------------
\* Sequences and sets.

Range(s) == {s[i] : i \in 1..Len(s)}
Last(s) == s[Len(s)]
Front(s) == SubSeq(s, 1, Len(s) - 1)
MinOf(S) == CHOOSE x \in S : \A y \in S : x <= y
MaxOf(S) == CHOOSE x \in S : \A y \in S : x >= y

\* sorted(list) of a list without repetitions, given as its set of members.
RECURSIVE sorted(_)
sorted(S) == IF S = {} THEN <<>> ELSE <<MinOf(S)>> \o sorted(S \ {MinOf(S)})

-----------------------------------------------------------------------------
\* The networkx.Graph underneath the object.  nodes is the node dict in
\* insertion order, adj[n] the neighbours of n in insertion order, data the
\* attribute dict shared by both directions of an edge, keyed by Key(u, v).

Key(u, v) == IF u <= v THEN <<u, v>> ELSE <<v, u>>

NoData == [k \in {} |-> [id |-> 0, enabled |-> FALSE]]
NoAdj == [n \in {} |-> <<>>]
EmptyGraph == [nodes |-> <<>>, adj |-> NoAdj, data |-> NoData, source_vertex_id |-> 0]

add_node(G, n) ==
    IF n \in DOMAIN G.adj THEN G
    ELSE [G EXCEPT !.nodes = Append(@, n), !.adj = (n :> <<>>) @@ @]

\* Adding an edge between endpoints that already have one updates the
\* attributes of the existing edge in place: the earlier id is overwritten.
add_edge(G0, u, v, id, enabled) ==
    LET G == add_node(add_node(G0, u), v)
        k == Key(u, v)
        attr == [id |-> id, enabled |-> enabled]
    IN  IF k \in DOMAIN G.data
        THEN [G EXCEPT !.data[k] = attr]
        ELSE [G EXCEPT
                !.adj = IF u = v THEN [@ EXCEPT ![u] = Append(@, u)]
                        ELSE [@ EXCEPT ![u] = Append(@, v), ![v] = Append(@, u)],
                !.data = (k :> attr) @@ @]

RECURSIVE add_nodes_from(_, _)
add_nodes_from(G, ids) ==
    IF ids = <<>> THEN G ELSE add_nodes_from(add_node(G, Head(ids)), Tail(ids))

\* G.edges(data=True): every edge once, from the endpoint that comes first in
\* node order, as <<u, v>>; its attributes are G.data[Key(u, v)].
EdgesAt(G, i) ==
    LET n == G.nodes[i]
        seen == {G.nodes[k] : k \in 1..(i - 1)}
        NotSeen(x) == x \notin seen
        nbrs == SelectSeq(G.adj[n], NotSeen)
    IN  [j \in 1..Len(nbrs) |-> <<n, nbrs[j]>>]

RECURSIVE EdgesUpTo(_, _)
EdgesUpTo(G, i) == IF i = 0 THEN <<>> ELSE EdgesUpTo(G, i - 1) \o EdgesAt(G, i)

edges(G) == EdgesUpTo(G, Len(G.nodes))

EdgeData(G, e) == G.data[Key(e[1], e[2])]

\* networkx.is_connected: a plain BFS from the first node reaches every node.
RECURSIVE plain_bfs(_, _)
plain_bfs(G, seen) ==
    LET next == seen \cup UNION {Range(G.adj[n]) : n \in seen}
    IN  IF next = seen THEN seen ELSE plain_bfs(G, next)

is_connected(G) == Cardinality(plain_bfs(G, {G.nodes[1]})) = Len(G.nodes)

\* networkx.bfs_edges: the (parent, child) edges of a breadth-first search
\* that visits the neighbours of each node in adjacency order.
RECURSIVE bfs_edges(_, _, _, _)
bfs_edges(G, queue, visited, out) ==
    IF queue = <<>> THEN out
    ELSE LET parent == Head(queue)
             Unvisited(x) == x \notin visited
             children == SelectSeq(G.adj[parent], Unvisited)
         IN  bfs_edges(G, Tail(queue) \o children, visited \cup Range(children),
                       out \cup {<<parent, children[j]>> : j \in 1..Len(children)})

\* networkx.bfs_tree(G, source): the set of directed tree edges.
bfs_tree(G, source) == bfs_edges(G, <<source>>, {source}, {})

\* networkx.descendants(T, x) of a directed edge set T.
RECURSIVE Reach(_, _)
Reach(T, S) ==
    LET next == S \cup {e[2] : e \in {t \in T : t[1] \in S}}
    IN  IF next = S THEN S ELSE Reach(T, next)

descendants(T, x) == Reach(T, {x}) \ {x}

\* networkx.edge_dfs(G, source) on an undirected graph: the edges in the
\* order of a depth-first traversal, each edge once, as <<tail, head>>.
\* pos[n] counts the entries of G.edges(n) already consumed.
RECURSIVE edge_dfs_loop(_, _, _, _, _)
edge_dfs_loop(G, stack, pos, visited_edges, out) ==
    IF stack = <<>> THEN out
    ELSE LET current_node == Last(stack)
         IN  IF pos[current_node] = Len(G.adj[current_node])
             THEN edge_dfs_loop(G, Front(stack), pos, visited_edges, out)
             ELSE LET head == G.adj[current_node][pos[current_node] + 1]
                      pos1 == [pos EXCEPT ![current_node] = @ + 1]
                      edgeid == Key(current_node, head)
                  IN  IF edgeid \in visited_edges
                      THEN edge_dfs_loop(G, stack, pos1, visited_edges, out)
                      ELSE edge_dfs_loop(G, Append(stack, head), pos1,
                                         visited_edges \cup {edgeid},
                                         Append(out, <<current_node, head>>))

edge_dfs(G, source) ==
    edge_dfs_loop(G, <<source>>, [n \in DOMAIN G.adj |-> 0], {}, <<>>)

-----------------------------------------------------------------------------
\* What an operation gives back: a value, or a raised exception.

Ret(v) == [err |-> NoError, val |-> v]
Raise(e) == [err |-> e, val |-> <<>>]

ErrNbunch == Error("NetworkXError", "nbunch is not a node or a sequence of nodes.")

\* Stands for None in previous_head; never a vertex id.
None == -1

-----------------------------------------------------------------------------
\* GraphProcessor's input checks.

_has_duplicate_ids(ids) ==
    \E i_origin \in 1..Len(ids) : \E i_check \in 1..Len(ids) :
        i_origin # i_check /\ ids[i_origin] = ids[i_check]

_has_same_length(list1, list2) == Len(list1) = Len(list2)

_has_vertex_ids(vertex_ids, edge_vertex_id_pairs) ==
    \A p \in 1..Len(edge_vertex_id_pairs) : \A k \in 1..2 :
        \E c \in 1..Len(vertex_ids) : edge_vertex_id_pairs[p][k] = vertex_ids[c]

_has_id(ids, id_check) == \E i \in 1..Len(ids) : ids[i] = id_check

-----------------------------------------------------------------------------
\* GraphProcessor.is_cyclic: networkx's find_cycle started at the source vertex.

\* The inner loop that pops the active path after a backtrack.
RECURSIVE backtrack(_, _, _)
backtrack(path, active_nodes, tail) ==
    IF path = <<>>
    THEN [edges |-> <<>>, active_nodes |-> {tail}, err |-> NoError]
    ELSE LET popped_head == Last(path)[2]
             rest == Front(path)
             active1 == active_nodes \ {popped_head}
         IN  IF popped_head \notin active_nodes
             THEN [edges |-> rest, active_nodes |-> active_nodes, err |-> ErrKeyError]
             ELSE IF rest # <<>> /\ Last(rest)[2] = tail
             THEN [edges |-> rest, active_nodes |-> active1, err |-> NoError]
             ELSE backtrack(rest, active1, tail)

\* The loop over the edges of edge_dfs.
RECURSIVE is_cyclic_loop(_, _, _, _)
is_cyclic_loop(todo, path, active_nodes, previous_head) ==
    IF todo = <<>> THEN Ret(FALSE)
    ELSE LET edge == Head(todo)
             tail == edge[1]
             head == edge[2]
             bt == IF previous_head # None /\ tail # previous_head
                   THEN backtrack(path, active_nodes, tail)
                   ELSE [edges |-> path, active_nodes |-> active_nodes, err |-> NoError]
         IN  IF bt.err # NoError THEN Raise(bt.err)
             ELSE IF head \in bt.active_nodes THEN Ret(TRUE)
             ELSE is_cyclic_loop(Tail(todo), Append(bt.edges, edge),
                                 bt.active_nodes \cup {head}, head)

\* The traversal steps over the disabled edges, for C20's mutant.
is_cyclic_EnabledOnly(G) ==
    LET enabled_only ==
            [G EXCEPT !.adj = [n \in DOMAIN G.adj |->
                LET Enabled(x) == G.data[Key(n, x)].enabled
                IN  SelectSeq(G.adj[n], Enabled)]]
    IN  IF G.source_vertex_id \notin DOMAIN G.adj THEN Raise(ErrNbunch)
        ELSE is_cyclic_loop(edge_dfs(enabled_only, G.source_vertex_id), <<>>,
                            {G.source_vertex_id}, None)

is_cyclic(G) ==
    IF G.source_vertex_id \notin DOMAIN G.adj THEN Raise(ErrNbunch)
    ELSE is_cyclic_loop(edge_dfs(G, G.source_vertex_id), <<>>, {G.source_vertex_id}, None)

-----------------------------------------------------------------------------
\* The two traversals one loop iteration at a time.  frame holds the local
\* variables of the running traversal: stack, pos and visited_edges of
\* nx.edge_dfs; edge, edges, active_nodes and previous_head of is_cyclic;
\* seen and nextlevel of the breadth-first search of nx.is_connected.  yielded
\* (the edges edge_dfs has yielded), pops (the edges the backtracking loop
\* has popped) and steps (the loop iterations made) record the history.

NoFrame ==
    [pc |-> "idle", op |-> "none", stack |-> <<>>, pos |-> <<>>, visited_edges |-> {},
     edge |-> <<>>, edges |-> <<>>, active_nodes |-> {}, previous_head |-> None,
     seen |-> {}, nextlevel |-> <<>>, yielded |-> <<>>, pops |-> 0, steps |-> 0,
     exit |-> "none", err |-> NoError, ret |-> FALSE]

Done(f, r) == [f EXCEPT !.pc = "done", !.err = r.err, !.ret = (r.err = NoError /\ r.val)]

\* is_cyclic up to the first iteration of edge_dfs.
is_cyclic_begin(G) ==
    IF G.source_vertex_id \notin DOMAIN G.adj
    THEN Done([NoFrame EXCEPT !.op = "is_cyclic"], Raise(ErrNbunch))
    ELSE [NoFrame EXCEPT !.pc = "edge_dfs", !.op = "is_cyclic",
                         !.stack = <<G.source_vertex_id>>,
                         !.pos = [n \in DOMAIN G.adj |-> 0],
                         !.active_nodes = {G.source_vertex_id}]

\* The visited_edges test is left out, for C21's mutant.
edge_dfs_step_NoVisitedEdges(G, f) ==
    IF f.stack = <<>> THEN Done(f, Ret(FALSE))
    ELSE LET current_node == Last(f.stack)
         IN  IF f.pos[current_node] = Len(G.adj[current_node])
             THEN [f EXCEPT !.stack = Front(@), !.steps = @ + 1]
             ELSE LET head == G.adj[current_node][f.pos[current_node] + 1]
                  IN  [f EXCEPT !.pc = "for_body", !.steps = @ + 1,
                                !.pos[current_node] = @ + 1,
                                !.stack = Append(@, head),
                                !.edge = <<current_node, head>>,
                                !.yielded = Append(@, <<current_node, head>>)]

\* One iteration of the stack loop of nx.edge_dfs; an empty stack ends the
\* generator, and with it the loop of is_cyclic, which then returns False.
edge_dfs_step(G, f) ==
    IF f.stack = <<>> THEN Done(f, Ret(FALSE))
    ELSE LET current_node == Last(f.stack)
         IN  IF f.pos[current_node] = Len(G.adj[current_node])
             THEN [f EXCEPT !.stack = Front(@), !.steps = @ + 1]
             ELSE LET head == G.adj[current_node][f.pos[current_node] + 1]
                      edgeid == Key(current_node, head)
                  IN  IF edgeid \in f.visited_edges
                      THEN [f EXCEPT !.pos[current_node] = @ + 1, !.steps = @ + 1]
                      ELSE [f EXCEPT !.pc = "for_body", !.steps = @ + 1,
                                     !.pos[current_node] = @ + 1,
                                     !.visited_edges = @ \cup {edgeid},
                                     !.stack = Append(@, head),
                                     !.edge = <<current_node, head>>,
                                     !.yielded = Append(@, <<current_node, head>>)]

\* The test that opens the body of the loop of is_cyclic.
for_body_step(f) ==
    IF f.previous_head # None /\ f.edge[1] # f.previous_head
    THEN [f EXCEPT !.pc = "backtrack", !.exit = "none"]
    ELSE [f EXCEPT !.pc = "append", !.exit = "none"]

\* One iteration of the backtracking loop.
backtrack_step(f) ==
    LET tail == f.edge[1]
    IN  IF f.edges = <<>>
        THEN [f EXCEPT !.pc = "append", !.active_nodes = {tail}, !.exit = "empty",
                       !.steps = @ + 1]
        ELSE LET popped_head == Last(f.edges)[2]
                 rest == Front(f.edges)
             IN  IF popped_head \notin f.active_nodes
                 THEN Done([f EXCEPT !.edges = rest, !.pops = @ + 1, !.steps = @ + 1],
                           Raise(ErrKeyError))
                 ELSE IF rest # <<>> /\ Last(rest)[2] = tail
                 THEN [f EXCEPT !.pc = "append", !.edges = rest, !.exit = "matched",
                                !.active_nodes = @ \ {popped_head},
                                !.pops = @ + 1, !.steps = @ + 1]
                 ELSE [f EXCEPT !.edges = rest, !.active_nodes = @ \ {popped_head},
                                !.pops = @ + 1, !.steps = @ + 1]

\* The rest of the body of the loop of is_cyclic.
append_step(f) ==
    LET head == f.edge[2]
        f1 == [f EXCEPT !.edges = Append(@, f.edge)]
    IN  IF head \in f.active_nodes THEN Done(f1, Ret(TRUE))
        ELSE [f1 EXCEPT !.pc = "edge_dfs", !.active_nodes = @ \cup {head},
                        !.previous_head = head]

\* nx.is_connected up to the first level of its breadth-first search.
is_connected_begin(G) ==
    [NoFrame EXCEPT !.pc = "bfs", !.op = "is_connected",
                    !.seen = {G.nodes[1]}, !.nextlevel = <<G.nodes[1]>>]

\* The loops over one level and over the neighbours of each of its nodes.
RECURSIVE bfs_level(_, _, _, _)
bfs_level(G, thislevel, seen, nextlevel) ==
    IF thislevel = <<>> THEN [seen |-> seen, nextlevel |-> nextlevel, all |-> FALSE]
    ELSE LET Unseen(w) == w \notin seen
             new == SelectSeq(G.adj[Head(thislevel)], Unseen)
             seen1 == seen \cup Range(new)
         IN  IF Cardinality(seen1) = Len(G.nodes)
             THEN [seen |-> seen1, nextlevel |-> nextlevel \o new, all |-> TRUE]
             ELSE bfs_level(G, Tail(thislevel), seen1, nextlevel \o new)

\* One iteration of the level loop of the breadth-first search.
plain_bfs_step(G, f) ==
    IF f.nextlevel = <<>>
    THEN Done(f, Ret(Cardinality(f.seen) = Len(G.nodes)))
    ELSE LET level == bfs_level(G, f.nextlevel, f.seen, <<>>)
             f1 == [f EXCEPT !.seen = level.seen, !.nextlevel = level.nextlevel,
                             !.steps = @ + 1]
         IN  IF level.all THEN Done(f1, Ret(TRUE)) ELSE f1

-----------------------------------------------------------------------------
\* The constructor and filter_disabled_edges, which builds a new object from
\* the enabled edges with recursive_object = True.

RECURSIVE build(_, _, _, _, _)
build(G, edge_ids, edge_vertex_id_pairs, edge_enabled, i) ==
    IF i > Len(edge_vertex_id_pairs) THEN G
    ELSE build(add_edge(G, edge_vertex_id_pairs[i][1], edge_vertex_id_pairs[i][2],
                        edge_ids[i], edge_enabled[i]),
               edge_ids, edge_vertex_id_pairs, edge_enabled, i + 1)

\* Lines 92-120 of __init__: the checks of the lists, swapped for C1's mutant.
init_lists_EnabledLengthFirst(vertex_ids, edge_ids, edge_vertex_id_pairs, edge_enabled, source_vertex_id) ==
    IF _has_duplicate_ids(vertex_ids) THEN Raise(ErrVertexIdsNotUnique)
    ELSE IF _has_duplicate_ids(edge_ids) THEN Raise(ErrEdgeIdsNotUnique)
    ELSE IF ~_has_same_length(edge_ids, edge_vertex_id_pairs) THEN Raise(ErrPairsLength)
    ELSE IF ~_has_same_length(edge_ids, edge_enabled) THEN Raise(ErrEnabledLength)
    ELSE IF ~_has_vertex_ids(vertex_ids, edge_vertex_id_pairs) THEN Raise(ErrPairsVertex)
    ELSE IF ~_has_id(vertex_ids, source_vertex_id) THEN Raise(ErrSourceVertex)
    ELSE Ret([build(add_nodes_from(EmptyGraph, vertex_ids),
                    edge_ids, edge_vertex_id_pairs, edge_enabled, 1)
                EXCEPT !.source_vertex_id = source_vertex_id])

\* Lines 92-120 of __init__ with the edge ids tested for duplicates before
\* the vertex ids, for C18's mutant.
init_lists_EdgeIdsFirst(vertex_ids, edge_ids, edge_vertex_id_pairs, edge_enabled, source_vertex_id) ==
    IF _has_duplicate_ids(edge_ids) THEN Raise(ErrEdgeIdsNotUnique)
    ELSE IF _has_duplicate_ids(vertex_ids) THEN Raise(ErrVertexIdsNotUnique)
    ELSE IF ~_has_same_length(edge_ids, edge_vertex_id_pairs) THEN Raise(ErrPairsLength)
    ELSE IF ~_has_vertex_ids(vertex_ids, edge_vertex_id_pairs) THEN Raise(ErrPairsVertex)
    ELSE IF ~_has_same_length(edge_ids, edge_enabled) THEN Raise(ErrEnabledLength)
    ELSE IF ~_has_id(vertex_ids, source_vertex_id) THEN Raise(ErrSourceVertex)
    ELSE Ret([build(add_nodes_from(EmptyGraph, vertex_ids),
                    edge_ids, edge_vertex_id_pairs, edge_enabled, 1)
                EXCEPT !.source_vertex_id = source_vertex_id])

\* Lines 92-120 of __init__: checks 1 to 5 of the code's comments, then the
\* networkx graph is filled and the source stored.
init_lists(vertex_ids, edge_ids, edge_vertex_id_pairs, edge_enabled, source_vertex_id) ==
    IF _has_duplicate_ids(vertex_ids) THEN Raise(ErrVertexIdsNotUnique)
    ELSE IF _has_duplicate_ids(edge_ids) THEN Raise(ErrEdgeIdsNotUnique)
    ELSE IF ~_has_same_length(edge_ids, edge_vertex_id_pairs) THEN Raise(ErrPairsLength)
    ELSE IF ~_has_vertex_ids(vertex_ids, edge_vertex_id_pairs) THEN Raise(ErrPairsVertex)
    ELSE IF ~_has_same_length(edge_ids, edge_enabled) THEN Raise(ErrEnabledLength)
    ELSE IF ~_has_id(vertex_ids, source_vertex_id) THEN Raise(ErrSourceVertex)
    ELSE Ret([build(add_nodes_from(EmptyGraph, vertex_ids),
                    edge_ids, edge_vertex_id_pairs, edge_enabled, 1)
                EXCEPT !.source_vertex_id = source_vertex_id])

RECURSIVE GraphProcessor(_, _, _, _, _, _)
RECURSIVE filter_disabled_edges(_)

\* __init__ without check 6, for C2's mutant.
GraphProcessor_NoConnectivityCheck(vertex_ids, edge_ids, edge_vertex_id_pairs, edge_enabled, source_vertex_id, recursive_object) ==
    LET self == init_lists(vertex_ids, edge_ids, edge_vertex_id_pairs, edge_enabled, source_vertex_id)
    IN  IF self.err # NoError \/ recursive_object THEN self
        ELSE LET filtered == filter_disabled_edges(self.val)
                 cyclic == is_cyclic(filtered.val)
             IN  IF filtered.err # NoError THEN Raise(filtered.err)
                 ELSE IF cyclic.err # NoError THEN Raise(cyclic.err)
                 ELSE IF cyclic.val THEN Raise(ErrCycle)
                 ELSE self

\* __init__ with check 7 run on the unfiltered graph, for C10's mutant.
GraphProcessor_CycleCheckUnfiltered(vertex_ids, edge_ids, edge_vertex_id_pairs, edge_enabled, source_vertex_id, recursive_object) ==
    LET self == init_lists(vertex_ids, edge_ids, edge_vertex_id_pairs, edge_enabled, source_vertex_id)
    IN  IF self.err # NoError \/ recursive_object THEN self
        ELSE LET filtered == filter_disabled_edges(self.val)
                 cyclic == is_cyclic(self.val)
             IN  IF filtered.err # NoError THEN Raise(filtered.err)
                 ELSE IF ~is_connected(filtered.val) THEN Raise(ErrNotConnected)
                 ELSE IF cyclic.err # NoError THEN Raise(cyclic.err)
                 ELSE IF cyclic.val THEN Raise(ErrCycle)
                 ELSE self

\* __init__: the list checks, then, unless the object is built by
\* filter_disabled_edges, checks 6 and 7 on the enabled edges.
GraphProcessor(vertex_ids, edge_ids, edge_vertex_id_pairs, edge_enabled, source_vertex_id, recursive_object) ==
    LET self == init_lists(vertex_ids, edge_ids, edge_vertex_id_pairs, edge_enabled, source_vertex_id)
    IN  IF self.err # NoError \/ recursive_object THEN self
        ELSE LET filtered == filter_disabled_edges(self.val)
                 cyclic == is_cyclic(filter_disabled_edges(self.val).val)
             IN  IF filtered.err # NoError THEN Raise(filtered.err)
                 ELSE IF ~is_connected(filtered.val) THEN Raise(ErrNotConnected)
                 ELSE IF cyclic.err # NoError THEN Raise(cyclic.err)
                 ELSE IF cyclic.val THEN Raise(ErrCycle)
                 ELSE self

\* filter_disabled_edges that keeps every edge, for C9's mutant.
filter_disabled_edges_KeepAll(G) ==
    LET all_edges == edges(G)
        edge_ids == [i \in 1..Len(all_edges) |-> EdgeData(G, all_edges[i]).id]
        edge_enabled == [i \in 1..Len(all_edges) |-> TRUE]
    IN  GraphProcessor(G.nodes, edge_ids, all_edges, edge_enabled, G.source_vertex_id, TRUE)

\* The vertices are taken from the endpoints of the enabled edges, for C22's
\* mutant.
filter_disabled_edges_VerticesOfEdges(G) ==
    LET IsEnabled(e) == EdgeData(G, e).enabled = TRUE
        enabled_edges == SelectSeq(edges(G), IsEnabled)
        edge_ids == [i \in 1..Len(enabled_edges) |-> EdgeData(G, enabled_edges[i]).id]
        edge_enabled == [i \in 1..Len(enabled_edges) |-> TRUE]
        OnEdge(n) == \E i \in 1..Len(enabled_edges) : n \in Range(enabled_edges[i])
    IN  GraphProcessor(SelectSeq(G.nodes, OnEdge), edge_ids, enabled_edges, edge_enabled,
                       G.source_vertex_id, TRUE)

filter_disabled_edges(G) ==
    LET IsEnabled(e) == EdgeData(G, e).enabled = TRUE
        enabled_edges == SelectSeq(edges(G), IsEnabled)
        edge_ids == [i \in 1..Len(enabled_edges) |-> EdgeData(G, enabled_edges[i]).id]
        edge_enabled == [i \in 1..Len(enabled_edges) |-> TRUE]
    IN  GraphProcessor(G.nodes, edge_ids, enabled_edges, edge_enabled, G.source_vertex_id, TRUE)

-----------------------------------------------------------------------------
\* set_edge_enabled_status(graph, edge_id, status)

\* Position in G.edges of the first edge with this id, 0 when there is none.
FirstWithId(G, edge_id) ==
    LET es == edges(G)
        hits == {i \in 1..Len(es) : EdgeData(G, es[i]).id = edge_id}
    IN  IF hits = {} THEN 0 ELSE MinOf(hits)

\* The disable of a disabled edge is let through, for C8's mutant.
set_edge_enabled_status_NoRaise(G, edge_id, status) ==
    LET i == FirstWithId(G, edge_id)
        e == edges(G)[i]
    IN  IF i = 0 THEN Raise(ErrEdgeNotInList(edge_id))
        ELSE Ret([G EXCEPT !.data[Key(e[1], e[2])].enabled = status])

\* Setting a flag to the value it has raises whatever the value, for C6's mutant.
set_edge_enabled_status_RaiseOnSame(G, edge_id, status) ==
    LET i == FirstWithId(G, edge_id)
        e == edges(G)[i]
    IN  IF i = 0 THEN Raise(ErrEdgeNotInList(edge_id))
        ELSE IF EdgeData(G, e).enabled = status THEN Raise(ErrAlreadyDisabled(edge_id))
        ELSE Ret([G EXCEPT !.data[Key(e[1], e[2])].enabled = status])

\* The connectivity check of the constructor is run again on the new
\* flags, for C14's mutant.
set_edge_enabled_status_Revalidating(G, edge_id, status) ==
    LET i == FirstWithId(G, edge_id)
        e == edges(G)[i]
        changed == [G EXCEPT !.data[Key(e[1], e[2])].enabled = status]
        filtered == filter_disabled_edges(changed)
    IN  IF i = 0 THEN Raise(ErrEdgeNotInList(edge_id))
        ELSE IF EdgeData(G, e).enabled = status /\ status = FALSE THEN Raise(ErrAlreadyDisabled(edge_id))
        ELSE IF filtered.err # NoError THEN Raise(filtered.err)
        ELSE IF ~is_connected(filtered.val) THEN Raise(ErrNotConnected)
        ELSE Ret(changed)

\* Disabling takes the edge out of the graph, for C24's mutant.
set_edge_enabled_status_RemovesDisabled(G, edge_id, status) ==
    LET i == FirstWithId(G, edge_id)
        e == edges(G)[i]
        k == Key(e[1], e[2])
    IN  IF i = 0 THEN Raise(ErrEdgeNotInList(edge_id))
        ELSE IF EdgeData(G, e).enabled = status /\ status = FALSE THEN Raise(ErrAlreadyDisabled(edge_id))
        ELSE IF status = FALSE
        THEN Ret([G EXCEPT
                    !.data = [j \in DOMAIN G.data \ {k} |-> G.data[j]],
                    !.adj = [n \in DOMAIN G.adj |->
                                LET Other(x) == Key(n, x) # k
                                IN  SelectSeq(G.adj[n], Other)]])
        ELSE Ret([G EXCEPT !.data[k].enabled = status])

\* The flag written is False whatever status says, for C30's mutant.
set_edge_enabled_status_OnlyDisables(G, edge_id, status) ==
    LET i == FirstWithId(G, edge_id)
        e == edges(G)[i]
    IN  IF i = 0 THEN Raise(ErrEdgeNotInList(edge_id))
        ELSE IF EdgeData(G, e).enabled = status /\ status = FALSE THEN Raise(ErrAlreadyDisabled(edge_id))
        ELSE Ret([G EXCEPT !.data[Key(e[1], e[2])].enabled = FALSE])

set_edge_enabled_status(G, edge_id, status) ==
    LET i == FirstWithId(G, edge_id)
        e == edges(G)[i]
    IN  IF i = 0 THEN Raise(ErrEdgeNotInList(edge_id))
        ELSE IF EdgeData(G, e).enabled = status /\ status = FALSE THEN Raise(ErrAlreadyDisabled(edge_id))
        ELSE Ret([G EXCEPT !.data[Key(e[1], e[2])].enabled = status])

-----------------------------------------------------------------------------
\* GraphProcessor.is_edge_enabled(edge_id)

is_edge_enabled(G, edge_id) ==
    LET IsChosen(e) == EdgeData(G, e).id = edge_id
        chosen_edge == SelectSeq(edges(G), IsChosen)
    IN  IF chosen_edge = <<>> THEN Raise(ErrEdgeNotInList(edge_id))
        ELSE LET enabled_status == EdgeData(G, chosen_edge[1]).enabled
             IN  IF enabled_status = FALSE THEN Ret(FALSE) ELSE Ret(TRUE)

-----------------------------------------------------------------------------
\* GraphProcessor.find_downstream_vertices(edge_id)

\* The second endpoint of the edge is taken as the far one, for C3's mutant.
find_downstream_vertices_SecondEndpoint(G, edge_id) ==
    LET es == edges(G)
        edge_ids == [i \in 1..Len(es) |-> EdgeData(G, es[i]).id]
    IN  IF ~_has_id(edge_ids, edge_id) THEN Raise(ErrProvidedIdNotInList)
        ELSE LET edge_vertices == es[FirstWithId(G, edge_id)]
                 filtered_graph == filter_disabled_edges(G)
                 tree == bfs_tree(filtered_graph.val, G.source_vertex_id)
                 v == edge_vertices[2]
             IN  IF ~EdgeData(G, edge_vertices).enabled THEN Ret(<<>>)
                 ELSE IF filtered_graph.err # NoError THEN Raise(filtered_graph.err)
                 ELSE Ret(sorted(descendants(tree, v) \cup {v}))

\* The enabled flag of the edge is not looked at, for C7's mutant.
find_downstream_vertices_NoDisabledCheck(G, edge_id) ==
    LET es == edges(G)
        edge_ids == [i \in 1..Len(es) |-> EdgeData(G, es[i]).id]
    IN  IF ~_has_id(edge_ids, edge_id) THEN Raise(ErrProvidedIdNotInList)
        ELSE LET edge_vertices == es[FirstWithId(G, edge_id)]
                 filtered_graph == filter_disabled_edges(G)
                 tree == bfs_tree(filtered_graph.val, G.source_vertex_id)
                 u == edge_vertices[1]
                 v == edge_vertices[2]
             IN  IF filtered_graph.err # NoError THEN Raise(filtered_graph.err)
                 ELSE IF <<u, v>> \in tree THEN Ret(sorted(descendants(tree, v) \cup {v}))
                 ELSE IF <<v, u>> \in tree THEN Ret(sorted(descendants(tree, u) \cup {u}))
                 ELSE Ret(<<>>)

\* The list is left as it was put together, the descendants and then the
\* downstream vertex, for C12's mutant.
find_downstream_vertices_Unsorted(G, edge_id) ==
    LET es == edges(G)
        edge_ids == [i \in 1..Len(es) |-> EdgeData(G, es[i]).id]
    IN  IF ~_has_id(edge_ids, edge_id) THEN Raise(ErrProvidedIdNotInList)
        ELSE LET edge_vertices == es[FirstWithId(G, edge_id)]
                 filtered_graph == filter_disabled_edges(G)
                 tree == bfs_tree(filtered_graph.val, G.source_vertex_id)
                 u == edge_vertices[1]
                 v == edge_vertices[2]
             IN  IF ~EdgeData(G, edge_vertices).enabled THEN Ret(<<>>)
                 ELSE IF filtered_graph.err # NoError THEN Raise(filtered_graph.err)
                 ELSE IF <<u, v>> \in tree THEN Ret(Append(sorted(descendants(tree, v)), v))
                 ELSE IF <<v, u>> \in tree THEN Ret(Append(sorted(descendants(tree, u)), u))
                 ELSE Ret(<<>>)

\* A failure to build the filtered graph ends in the empty list, as the
\* except branch does for a NetworkXError, for C13's mutant.
find_downstream_vertices_SourceErrorAsEmpty(G, edge_id) ==
    LET es == edges(G)
        edge_ids == [i \in 1..Len(es) |-> EdgeData(G, es[i]).id]
    IN  IF ~_has_id(edge_ids, edge_id) THEN Raise(ErrProvidedIdNotInList)
        ELSE LET edge_vertices == es[FirstWithId(G, edge_id)]
                 filtered_graph == filter_disabled_edges(G)
                 tree == bfs_tree(filtered_graph.val, G.source_vertex_id)
                 u == edge_vertices[1]
                 v == edge_vertices[2]
             IN  IF ~EdgeData(G, edge_vertices).enabled THEN Ret(<<>>)
                 ELSE IF filtered_graph.err # NoError THEN Ret(<<>>)
                 ELSE IF <<u, v>> \in tree THEN Ret(sorted(descendants(tree, v) \cup {v}))
                 ELSE IF <<v, u>> \in tree THEN Ret(sorted(descendants(tree, u) \cup {u}))
                 ELSE Ret(<<>>)

\* Without the final else the edge that is not in the tree reaches the
\* descendants with no downstream vertex set, for C23's mutant.
find_downstream_vertices_NoElse(G, edge_id) ==
    LET es == edges(G)
        edge_ids == [i \in 1..Len(es) |-> EdgeData(G, es[i]).id]
    IN  IF ~_has_id(edge_ids, edge_id) THEN Raise(ErrProvidedIdNotInList)
        ELSE LET edge_vertices == es[FirstWithId(G, edge_id)]
                 edge_data == EdgeData(G, edge_vertices)
             IN  IF ~edge_data.enabled THEN Ret(<<>>)
                 ELSE LET filtered_graph == filter_disabled_edges(G)
                      IN  IF filtered_graph.err # NoError THEN Raise(filtered_graph.err)
                          ELSE LET tree == bfs_tree(filtered_graph.val, G.source_vertex_id)
                                   u == edge_vertices[1]
                                   v == edge_vertices[2]
                               IN  IF <<u, v>> \in tree
                                   THEN Ret(sorted(descendants(tree, v) \cup {v}))
                                   ELSE IF <<v, u>> \in tree
                                   THEN Ret(sorted(descendants(tree, u) \cup {u}))
                                   ELSE Raise(Error("UnboundLocalError", "downstream_vertex"))

\* Only the downstream endpoint is returned, without its descendants, for
\* C28's mutant.
find_downstream_vertices_EndpointOnly(G, edge_id) ==
    LET es == edges(G)
        edge_ids == [i \in 1..Len(es) |-> EdgeData(G, es[i]).id]
    IN  IF ~_has_id(edge_ids, edge_id) THEN Raise(ErrProvidedIdNotInList)
        ELSE LET edge_vertices == es[FirstWithId(G, edge_id)]
                 edge_data == EdgeData(G, edge_vertices)
             IN  IF ~edge_data.enabled THEN Ret(<<>>)
                 ELSE LET filtered_graph == filter_disabled_edges(G)
                      IN  IF filtered_graph.err # NoError THEN Raise(filtered_graph.err)
                          ELSE LET tree == bfs_tree(filtered_graph.val, G.source_vertex_id)
                                   u == edge_vertices[1]
                                   v == edge_vertices[2]
                               IN  IF <<u, v>> \in tree THEN Ret(<<v>>)
                                   ELSE IF <<v, u>> \in tree THEN Ret(<<u>>)
                                   ELSE Ret(<<>>)

\* The two orientations are mixed up and the subtree of the parent endpoint
\* is returned, for C29's mutant.
find_downstream_vertices_ParentEndpoint(G, edge_id) ==
    LET es == edges(G)
        edge_ids == [i \in 1..Len(es) |-> EdgeData(G, es[i]).id]
    IN  IF ~_has_id(edge_ids, edge_id) THEN Raise(ErrProvidedIdNotInList)
        ELSE LET edge_vertices == es[FirstWithId(G, edge_id)]
                 edge_data == EdgeData(G, edge_vertices)
             IN  IF ~edge_data.enabled THEN Ret(<<>>)
                 ELSE LET filtered_graph == filter_disabled_edges(G)
                      IN  IF filtered_graph.err # NoError THEN Raise(filtered_graph.err)
                          ELSE LET tree == bfs_tree(filtered_graph.val, G.source_vertex_id)
                                   u == edge_vertices[1]
                                   v == edge_vertices[2]
                               IN  IF <<u, v>> \in tree
                                   THEN Ret(sorted(descendants(tree, u) \cup {u}))
                                   ELSE IF <<v, u>> \in tree
                                   THEN Ret(sorted(descendants(tree, v) \cup {v}))
                                   ELSE Ret(<<>>)

find_downstream_vertices(G, edge_id) ==
    LET es == edges(G)
        edge_ids == [i \in 1..Len(es) |-> EdgeData(G, es[i]).id]
    IN  IF ~_has_id(edge_ids, edge_id) THEN Raise(ErrProvidedIdNotInList)
        ELSE LET edge_vertices == es[FirstWithId(G, edge_id)]
                 edge_data == EdgeData(G, edge_vertices)
             IN  IF ~edge_data.enabled THEN Ret(<<>>)
                 ELSE LET filtered_graph == filter_disabled_edges(G)
                      IN  IF filtered_graph.err # NoError THEN Raise(filtered_graph.err)
                          ELSE IF G.source_vertex_id \notin DOMAIN filtered_graph.val.adj
                          THEN Ret(<<>>)
                          ELSE LET tree == bfs_tree(filtered_graph.val, G.source_vertex_id)
                                   u == edge_vertices[1]
                                   v == edge_vertices[2]
                               IN  IF <<u, v>> \in tree
                                   THEN Ret(sorted(descendants(tree, v) \cup {v}))
                                   ELSE IF <<v, u>> \in tree
                                   THEN Ret(sorted(descendants(tree, u) \cup {u}))
                                   ELSE Ret(<<>>)

-----------------------------------------------------------------------------
\* GraphProcessor.find_alternative_edges(disabled_edge_id)

\* The loop over self.edges: every disabled edge is enabled in a copy of
\* self_copy and kept when the enabled edges of that copy are connected.
RECURSIVE alternatives_loop(_, _, _, _)
alternatives_loop(G, self_copy, i, valid_alternatives) ==
    IF i > Len(edges(G)) THEN Ret(valid_alternatives)
    ELSE LET d == EdgeData(G, edges(G)[i])
         IN  IF d.enabled THEN alternatives_loop(G, self_copy, i + 1, valid_alternatives)
             ELSE LET test_graph == set_edge_enabled_status(self_copy, d.id, TRUE)
                      filtered == IF test_graph.err # NoError THEN Raise(test_graph.err)
                                  ELSE filter_disabled_edges(test_graph.val)
                  IN  IF filtered.err # NoError THEN Raise(filtered.err)
                      ELSE IF ~is_connected(filtered.val)
                      THEN alternatives_loop(G, self_copy, i + 1, valid_alternatives)
                      ELSE alternatives_loop(G, self_copy, i + 1,
                                             Append(valid_alternatives, d.id))

\* The candidates are enabled in a copy that still has the queried edge
\* enabled, for C4's mutant.
find_alternative_edges_EdgeKept(G, disabled_edge_id) ==
    LET self_copy == set_edge_enabled_status(G, disabled_edge_id, FALSE)
    IN  IF self_copy.err # NoError THEN Raise(self_copy.err)
        ELSE alternatives_loop(G, G, 1, <<>>)

\* The accepted candidates are returned sorted by id, for C11's mutant.
find_alternative_edges_Sorted(G, disabled_edge_id) ==
    LET self_copy == set_edge_enabled_status(G, disabled_edge_id, FALSE)
        found == alternatives_loop(G, self_copy.val, 1, <<>>)
    IN  IF self_copy.err # NoError THEN Raise(self_copy.err)
        ELSE IF found.err # NoError THEN found
        ELSE Ret(sorted(Range(found.val)))

find_alternative_edges(G, disabled_edge_id) ==
    LET self_copy == set_edge_enabled_status(G, disabled_edge_id, FALSE)
    IN  IF self_copy.err # NoError THEN Raise(self_copy.err)
        ELSE alternatives_loop(G, self_copy.val, 1, <<>>)

-----------------------------------------------------------------------------
\* Constructor arguments.

NoArgs == [vertex_ids |-> <<>>, edge_ids |-> <<>>, edge_vertex_id_pairs |-> <<>>,
           edge_enabled |-> <<>>, source_vertex_id |-> 0]

SeqsUpTo(S, n) == UNION {[1..k -> S] : k \in 0..n}

\* Endpoint pairs over a set of vertex ids.  The orientation of a pair does
\* not reach the graph (add_edge stores both directions), so u <= v.
PairsOver(S) == {p \in S \X S : p[1] <= p[2]}

\* Lists that pass the length and uniqueness checks: vertices 1..n, edge ids
\* 1..m, any endpoints among the vertices (parallel edges and self-loops
\* included), any flags, any source among the vertices.
WellFormedArgs ==
    UNION {UNION {
        [vertex_ids : {[i \in 1..n |-> i]},
         edge_ids : {[i \in 1..m |-> i]},
         edge_vertex_id_pairs : [1..m -> PairsOver(1..n)],
         edge_enabled : [1..m -> BOOLEAN],
         source_vertex_id : 1..n] : m \in 0..MaxE} : n \in 1..MaxV}

\* Simple graphs on one vertex more: MaxV + 1 vertices and MaxE + 1 or
\* MaxE + 2 edges between distinct vertices, no two edges with the same
\* endpoints, listed in increasing order of their endpoints, with ids that
\* rise or fall along the list.
Before(p, q) == p[1] < q[1] \/ (p[1] = q[1] /\ p[2] < q[2])
SimpleArgs ==
    LET n == MaxV + 1
    IN  UNION {
        [vertex_ids : {[i \in 1..n |-> i]},
         edge_ids : {[i \in 1..m |-> i], [i \in 1..m |-> m + 1 - i]},
         edge_vertex_id_pairs :
            {ps \in [1..m -> {p \in PairsOver(1..n) : p[1] # p[2]}] :
                \A i \in 1..(m - 1) : Before(ps[i], ps[i + 1])},
         edge_enabled : [1..m -> BOOLEAN],
         source_vertex_id : 1..n] : m \in (MaxE + 1)..(MaxE + 2)}

\* Unvalidated lists: any lengths up to MaxLen, repetitions, endpoints and
\* sources that may or may not be vertices.
RawIds == {1, 2}
RawArgs ==
    [vertex_ids : SeqsUpTo(RawIds, MaxLen),
     edge_ids : SeqsUpTo(RawIds, MaxLen),
     edge_vertex_id_pairs : SeqsUpTo(PairsOver(RawIds), MaxLen),
     edge_enabled : SeqsUpTo(BOOLEAN, MaxLen),
     source_vertex_id : RawIds]

\* Edge ids a caller may pass for an object built from m edges: the ids
\* 1..m it was given, of which the last is always stored, and m + 1, the id
\* of no edge.
EdgeIdArgs(G) ==
    1..(MaxOf({0} \cup {G.data[k].id : k \in DOMAIN G.data}) + 1)
\* Values a caller may assign to source_vertex_id: 0 is no vertex.
SourceArgs(G) == 0..Len(G.nodes)

-----------------------------------------------------------------------------
\* The state machine.

NoCall == [op |-> "none", edge_id |-> 0, status |-> FALSE, err |-> NoError, ret |-> <<>>]

Init ==
    /\ pc = "new"
    /\ args \in WellFormedArgs \cup SimpleArgs
    /\ graph = EmptyGraph
    /\ raised = NoError
    /\ call = NoCall
    /\ frame = NoFrame

InitRaw ==
    /\ pc = "new"
    /\ args \in RawArgs
    /\ graph = EmptyGraph
    /\ raised = NoError
    /\ call = NoCall
    /\ frame = NoFrame

\* GraphProcessor(vertex_ids, edge_ids, edge_vertex_id_pairs, edge_enabled, source_vertex_id)
Construct ==
    /\ pc = "new"
    /\ LET r == GraphProcessor(args.vertex_ids, args.edge_ids, args.edge_vertex_id_pairs,
                               args.edge_enabled, args.source_vertex_id, FALSE)
       IN  IF r.err = NoError
           THEN /\ pc' = "ready"
                /\ graph' = r.val
                /\ args' = [NoArgs EXCEPT !.edge_ids = args.edge_ids]
                /\ UNCHANGED raised
           ELSE /\ pc' = "failed"
                /\ raised' = r.err
                /\ UNCHANGED <<graph, args>>
    /\ UNCHANGED <<call, frame>>

\* set_edge_enabled_status(graph, edge_id, status)
SetEdgeEnabledStatus ==
    /\ pc = "ready"
    /\ call.op = "none"
    /\ \E edge_id \in EdgeIdArgs(graph), status \in BOOLEAN :
        LET r == set_edge_enabled_status(graph, edge_id, status)
        IN  /\ graph' = IF r.err = NoError THEN r.val ELSE graph
            /\ call' = [op |-> "set_edge_enabled_status", edge_id |-> edge_id,
                        status |-> status, err |-> r.err, ret |-> <<>>]
    /\ UNCHANGED <<pc, args, raised, frame>>

\* graph.find_downstream_vertices(edge_id)
FindDownstreamVertices ==
    /\ pc = "ready"
    /\ call.op = "none"
    /\ \E edge_id \in EdgeIdArgs(graph) :
        LET r == find_downstream_vertices(graph, edge_id)
        IN  call' = [op |-> "find_downstream_vertices", edge_id |-> edge_id,
                     status |-> FALSE, err |-> r.err, ret |-> r.val]
    /\ UNCHANGED <<pc, args, graph, raised, frame>>

\* find_alternative_edges whose test_graph is the object itself instead of a
\* copy: the candidates it enabled stay enabled, for C15's mutant.
FindAlternativeEdges_CandidatesOnLiveGraph ==
    /\ pc = "ready"
    /\ call.op = "none"
    /\ \E edge_id \in EdgeIdArgs(graph) :
        LET r == find_alternative_edges(graph, edge_id)
        IN  /\ call' = [op |-> "find_alternative_edges", edge_id |-> edge_id,
                        status |-> FALSE, err |-> r.err, ret |-> r.val]
            /\ graph' = IF r.err # NoError THEN graph
                        ELSE [graph EXCEPT !.data =
                                [k \in DOMAIN graph.data |-> [graph.data[k] EXCEPT !.enabled = TRUE]]]
    /\ UNCHANGED <<pc, args, raised, frame>>

\* find_alternative_edges whose self_copy is the object itself instead of a
\* copy: the queried edge stays disabled, also when the loop raises
\* afterwards, for C16's mutant.
FindAlternativeEdges_DisabledOnLiveGraph ==
    /\ pc = "ready"
    /\ call.op = "none"
    /\ \E edge_id \in EdgeIdArgs(graph) :
        LET r == find_alternative_edges(graph, edge_id)
            self_copy == set_edge_enabled_status(graph, edge_id, FALSE)
        IN  /\ call' = [op |-> "find_alternative_edges", edge_id |-> edge_id,
                        status |-> FALSE, err |-> r.err, ret |-> r.val]
            /\ graph' = IF self_copy.err # NoError THEN graph ELSE self_copy.val
    /\ UNCHANGED <<pc, args, raised, frame>>

\* graph.find_alternative_edges(disabled_edge_id)
FindAlternativeEdges ==
    /\ pc = "ready"
    /\ call.op = "none"
    /\ \E edge_id \in EdgeIdArgs(graph) :
        LET r == find_alternative_edges(graph, edge_id)
        IN  call' = [op |-> "find_alternative_edges", edge_id |-> edge_id,
                     status |-> FALSE, err |-> r.err, ret |-> r.val]
    /\ UNCHANGED <<pc, args, graph, raised, frame>>

\* graph.is_edge_enabled(edge_id)
IsEdgeEnabled ==
    /\ pc = "ready"
    /\ call.op = "none"
    /\ \E edge_id \in EdgeIdArgs(graph) :
        LET r == is_edge_enabled(graph, edge_id)
        IN  call' = [op |-> "is_edge_enabled", edge_id |-> edge_id,
                     status |-> FALSE, err |-> r.err, ret |-> r.val]
    /\ UNCHANGED <<pc, args, graph, raised, frame>>

\* graph.is_cyclic(): the cycle check on the object itself, disabled edges included
IsCyclic ==
    /\ pc = "ready"
    /\ call.op = "none"
    /\ LET r == is_cyclic(graph)
       IN  call' = [op |-> "is_cyclic", edge_id |-> 0,
                    status |-> FALSE, err |-> r.err, ret |-> r.val]
    /\ UNCHANGED <<pc, args, graph, raised, frame>>

\* filter_disabled_edges(graph).is_cyclic(): the cycle check the docstring of
\* is_cyclic prescribes for the enabled edges
IsCyclicFiltered ==
    /\ pc = "ready"
    /\ call.op = "none"
    /\ LET filtered == filter_disabled_edges(graph)
           r == IF filtered.err # NoError THEN Raise(filtered.err)
                ELSE is_cyclic(filtered.val)
       IN  call' = [op |-> "is_cyclic_filtered", edge_id |-> 0,
                    status |-> FALSE, err |-> r.err, ret |-> r.val]
    /\ UNCHANGED <<pc, args, graph, raised, frame>>

\* filter_disabled_edges(graph), called by a user of the module
FilterDisabledEdges ==
    /\ pc = "ready"
    /\ call.op = "none"
    /\ LET r == filter_disabled_edges(graph)
       IN  call' = [op |-> "filter_disabled_edges", edge_id |-> 0,
                    status |-> FALSE, err |-> r.err, ret |-> r.val]
    /\ UNCHANGED <<pc, args, graph, raised, frame>>

\* graph.source_vertex_id = v, the attribute assignment that moves the source.
SetSourceVertexId ==
    /\ pc = "ready"
    /\ call.op = "none"
    /\ \E v \in SourceArgs(graph) :
        /\ v # graph.source_vertex_id
        /\ graph' = [graph EXCEPT !.source_vertex_id = v]
    /\ UNCHANGED <<pc, args, raised, call, frame>>

\* The caller has looked at the outcome of its last call and makes the next one.
Return ==
    /\ pc = "ready"
    /\ call.op # "none"
    /\ call' = NoCall
    /\ UNCHANGED <<pc, args, graph, raised, frame>>

Next ==
    \/ Construct
    \/ SetEdgeEnabledStatus
    \/ FindDownstreamVertices
    \/ FindAlternativeEdges
    \/ IsEdgeEnabled
    \/ IsCyclic
    \/ IsCyclicFiltered
    \/ FilterDisabledEdges
    \/ SetSourceVertexId
    \/ Return

Spec == Init /\ [][Next]_vars

SpecRaw == InitRaw /\ [][Next]_vars

-----------------------------------------------------------------------------
\* A caller that does nothing but swap edges: it asks find_alternative_edges
\* for the alternatives of an enabled edge, disables that edge and enables
\* one of the alternatives.

MaxSwaps == 3   \* the swaps are counted up to MaxSwaps; later ones leave the count there

\* find_alternative_edges(edge_id), set_edge_enabled_status(edge_id, False),
\* set_edge_enabled_status(alternative, True); a call that raises ends the swap.
Swap ==
    /\ pc = "ready"
    /\ \E edge_id \in EdgeIdArgs(graph) :
        LET chosen == SelectSeq(edges(graph), LAMBDA e : EdgeData(graph, e).id = edge_id)
            alternatives == find_alternative_edges(graph, edge_id)
        IN  /\ chosen # <<>>
            /\ EdgeData(graph, chosen[1]).enabled
            /\ alternatives.err = NoError
            /\ \E alternative \in Range(alternatives.val) :
                LET disabled == set_edge_enabled_status(graph, edge_id, FALSE)
                    enabled == IF disabled.err # NoError THEN disabled
                               ELSE set_edge_enabled_status(disabled.val, alternative, TRUE)
                    count == IF call.op = "swap" THEN call.swaps ELSE 0
                IN  /\ graph' = IF disabled.err # NoError THEN graph
                                ELSE IF enabled.err # NoError THEN disabled.val
                                ELSE enabled.val
                    /\ call' = [op |-> "swap", edge_id |-> edge_id, status |-> FALSE,
                                err |-> enabled.err, ret |-> <<alternative>>,
                                swaps |-> IF count < MaxSwaps THEN count + 1 ELSE MaxSwaps]
    /\ UNCHANGED <<pc, args, raised, frame>>

NextSwap ==
    \/ Construct
    \/ Swap

SpecSwap == Init /\ [][NextSwap]_vars

\* What the three queries answer for every edge id a caller may pass.
QueryResults(G) ==
    [edge_id \in EdgeIdArgs(G) |->
        [is_edge_enabled |-> is_edge_enabled(G, edge_id),
         find_downstream_vertices |-> find_downstream_vertices(G, edge_id),
         find_alternative_edges |-> find_alternative_edges(G, edge_id)]]

\* set_edge_enabled_status(edge_id, False) followed by
\* set_edge_enabled_status(edge_id, True) for an enabled edge; the caller keeps
\* the graph and the answers of the queries from before the two calls.
DisableThenEnable ==
    /\ pc = "ready"
    /\ call.op = "none"
    /\ \E edge_id \in EdgeIdArgs(graph) :
        LET chosen == SelectSeq(edges(graph), LAMBDA e : EdgeData(graph, e).id = edge_id)
            disabled == set_edge_enabled_status(graph, edge_id, FALSE)
            enabled == IF disabled.err # NoError THEN disabled
                       ELSE set_edge_enabled_status(disabled.val, edge_id, TRUE)
        IN  /\ chosen # <<>>
            /\ EdgeData(graph, chosen[1]).enabled
            /\ graph' = IF disabled.err # NoError THEN graph
                        ELSE IF enabled.err # NoError THEN disabled.val
                        ELSE enabled.val
            /\ call' = [op |-> "disable_then_enable", edge_id |-> edge_id, status |-> TRUE,
                        err |-> enabled.err, ret |-> <<>>,
                        before |-> graph, results |-> QueryResults(graph)]
    /\ UNCHANGED <<pc, args, raised, frame>>

NextToggle ==
    \/ Construct
    \/ SetEdgeEnabledStatus
    \/ SetSourceVertexId
    \/ DisableThenEnable
    \/ Return

SpecToggle == Init /\ [][NextToggle]_vars

-----------------------------------------------------------------------------
\* The traversals followed step by step, on every graph an object or the
\* filtered copy of an object can hold.

\* GraphProcessor(..., recursive_object = True) skips the connectivity and
\* cycle checks; filter_disabled_edges of such an object gives the graphs
\* the traversals run on, connected or not, cyclic or not.
TraversalGraphs ==
    LET unchecked == {GraphProcessor(a.vertex_ids, a.edge_ids, a.edge_vertex_id_pairs,
                                     a.edge_enabled, a.source_vertex_id, TRUE) :
                        a \in WellFormedArgs \cup SimpleArgs}
        filtered == {filter_disabled_edges(u.val) : u \in {w \in unchecked : w.err = NoError}}
    IN  {r.val : r \in {u \in filtered : u.err = NoError}}

InitTraversal ==
    /\ pc = "ready"
    /\ args = NoArgs
    /\ \E G \in TraversalGraphs, v \in 0..(MaxV + 1) :
        /\ v <= Len(G.nodes)
        /\ graph = [G EXCEPT !.source_vertex_id = v]
    /\ raised = NoError
    /\ call = NoCall
    /\ frame = NoFrame

\* graph.is_cyclic() is entered
IsCyclicBegin ==
    /\ frame.pc = "idle"
    /\ frame' = is_cyclic_begin(graph)
    /\ UNCHANGED <<pc, args, graph, raised, call>>

EdgeDfsStep ==
    /\ frame.pc = "edge_dfs"
    /\ frame' = edge_dfs_step(graph, frame)
    /\ UNCHANGED <<pc, args, graph, raised, call>>

ForBodyStep ==
    /\ frame.pc = "for_body"
    /\ frame' = for_body_step(frame)
    /\ UNCHANGED <<pc, args, graph, raised, call>>

BacktrackStep ==
    /\ frame.pc = "backtrack"
    /\ frame' = backtrack_step(frame)
    /\ UNCHANGED <<pc, args, graph, raised, call>>

AppendStep ==
    /\ frame.pc = "append"
    /\ frame' = append_step(frame)
    /\ UNCHANGED <<pc, args, graph, raised, call>>

\* nx.is_connected(graph) is entered
IsConnectedBegin ==
    /\ frame.pc = "idle"
    /\ frame' = is_connected_begin(graph)
    /\ UNCHANGED <<pc, args, graph, raised, call>>

PlainBfsStep ==
    /\ frame.pc = "bfs"
    /\ frame' = plain_bfs_step(graph, frame)
    /\ UNCHANGED <<pc, args, graph, raised, call>>

NextTraversal ==
    \/ IsCyclicBegin
    \/ EdgeDfsStep
    \/ ForBodyStep
    \/ BacktrackStep
    \/ AppendStep
    \/ IsConnectedBegin
    \/ PlainBfsStep

\* A running traversal is a sequential loop: its next iteration is always taken.
SpecTraversal == InitTraversal /\ [][NextTraversal]_vars /\ WF_vars(NextTraversal)

-----------------------------------------------------------------------------
\* input_data_validation.py: validate_power_grid_data on the component lists
\* of a power grid.  A component is a record with the fields of its type:
\* id for a node, id, from_node, to_node for a line, id, node for a source
\* or a sym_load, and for a transformer id, from_node, to_node, tap_min,
\* tap_max, tap_pos.

\* Bounds of the power grids.
MaxNodes == 2       \* at most MaxNodes nodes, sources and transformers, node ids 1..MaxNodes
MaxBranches == 1    \* at most MaxBranches lines and as many sym_loads
MaxTap == 1         \* tap_min and tap_max lie in -MaxTap..MaxTap
MaxScore == 2       \* the scores of the tap positions lie in 0..MaxScore

ErrTransformerCount ==
    Error("ValidationError", "Transformer list contains more that 1 transformer. Only 1 transformer is supported for this object.")
ErrSourceCount ==
    Error("ValidationError", "Source list contains more that 1 source. Only 1 source is supported for this object.")
ErrSameNode == Error("IDNotUniqueError", "An edge is connected to the same node on both sides.")
ErrDuplicateIds == Error("IDNotUniqueError", "There are components with duplicate IDs.")
ErrLineNode == Error("IDNotFoundError", "Line(s) contain(s) non-existent node ID.")
ErrSymLoadNode == Error("IDNotFoundError", "Sym_load(s) contain(s) non-existent node ID.")
ErrTransformerNode == Error("IDNotFoundError", "Transformer contains non-existent node ID.")
ErrSourceNode == Error("IDNotFoundError", "The provided source_node_id is not in the node list.")
ErrDatatype == Error("TypeError", "Datatype not supported by this function")

\* The ids of the items of the lists, in the order of the lists.
RECURSIVE ids_of(_)
ids_of(lists) ==
    IF lists = <<>> THEN <<>>
    ELSE [i \in 1..Len(Head(lists)) |-> Head(lists)[i].id] \o ids_of(Tail(lists))

has_duplicate_ids(lists) ==
    LET ids == ids_of(lists)
    IN  Len(ids) # Cardinality(Range(ids))

\* The loop over from_node and to_node; "except" when an item has no such field.
RECURSIVE has_node_ids_edges(_, _, _)
has_node_ids_edges(node_ids, lines, i) ==
    IF i > Len(lines) THEN "true"
    ELSE IF ~({"from_node", "to_node"} \subseteq DOMAIN lines[i]) THEN "except"
    ELSE IF lines[i].from_node \notin Range(node_ids) \/ lines[i].to_node \notin Range(node_ids)
    THEN "false"
    ELSE has_node_ids_edges(node_ids, lines, i + 1)

\* The loop over node that runs after the first loop raised.
RECURSIVE has_node_ids_node(_, _, _)
has_node_ids_node(node_ids, lines, i) ==
    IF i > Len(lines) THEN "true"
    ELSE IF "node" \notin DOMAIN lines[i] THEN "except"
    ELSE IF lines[i].node \notin Range(node_ids) THEN "false"
    ELSE has_node_ids_node(node_ids, lines, i + 1)

has_node_ids(nodes, lines) ==
    LET node_ids == [i \in 1..Len(nodes) |-> nodes[i].id]
        first == has_node_ids_edges(node_ids, lines, 1)
        second == has_node_ids_node(node_ids, lines, 1)
    IN  IF first # "except" THEN Ret(first = "true")
        ELSE IF second # "except" THEN Ret(second = "true")
        ELSE Raise(ErrDatatype)

has_valid_edges(lists) ==
    \A i \in 1..Len(lists) : \A j \in 1..Len(lists[i]) :
        lists[i][j].from_node # lists[i][j].to_node

\* The self-loop test comes after the test for duplicate ids, for C25's mutant.
validate_power_grid_data_DuplicatesFirst(power_grid) ==
    LET nodes == power_grid.node
        lines == power_grid.line
        source == power_grid.source
        sym_loads == power_grid.sym_load
        transformer == power_grid.transformer
    IN  IF Len(transformer) # 1 THEN ErrTransformerCount
        ELSE IF Len(source) # 1 THEN ErrSourceCount
        ELSE IF has_duplicate_ids(<<nodes, lines, source, sym_loads, transformer>>)
        THEN ErrDuplicateIds
        ELSE IF ~has_valid_edges(<<lines, transformer>>) THEN ErrSameNode
        ELSE IF has_node_ids(nodes, lines).err # NoError THEN has_node_ids(nodes, lines).err
        ELSE IF ~has_node_ids(nodes, lines).val THEN ErrLineNode
        ELSE IF has_node_ids(nodes, sym_loads).err # NoError THEN has_node_ids(nodes, sym_loads).err
        ELSE IF ~has_node_ids(nodes, sym_loads).val THEN ErrSymLoadNode
        ELSE IF has_node_ids(nodes, transformer).err # NoError THEN has_node_ids(nodes, transformer).err
        ELSE IF ~has_node_ids(nodes, transformer).val THEN ErrTransformerNode
        ELSE IF has_node_ids(nodes, source).err # NoError THEN has_node_ids(nodes, source).err
        ELSE IF ~has_node_ids(nodes, source).val THEN ErrSourceNode
        ELSE NoError

\* The exception validate_power_grid_data raises, NoError when it returns.
validate_power_grid_data(power_grid) ==
    LET nodes == power_grid.node
        lines == power_grid.line
        source == power_grid.source
        sym_loads == power_grid.sym_load
        transformer == power_grid.transformer
    IN  IF Len(transformer) # 1 THEN ErrTransformerCount
        ELSE IF Len(source) # 1 THEN ErrSourceCount
        ELSE IF ~has_valid_edges(<<lines, transformer>>) THEN ErrSameNode
        ELSE IF has_duplicate_ids(<<nodes, lines, source, sym_loads, transformer>>)
        THEN ErrDuplicateIds
        ELSE IF has_node_ids(nodes, lines).err # NoError THEN has_node_ids(nodes, lines).err
        ELSE IF ~has_node_ids(nodes, lines).val THEN ErrLineNode
        ELSE IF has_node_ids(nodes, sym_loads).err # NoError THEN has_node_ids(nodes, sym_loads).err
        ELSE IF ~has_node_ids(nodes, sym_loads).val THEN ErrSymLoadNode
        ELSE IF has_node_ids(nodes, transformer).err # NoError THEN has_node_ids(nodes, transformer).err
        ELSE IF ~has_node_ids(nodes, transformer).val THEN ErrTransformerNode
        ELSE IF has_node_ids(nodes, source).err # NoError THEN has_node_ids(nodes, source).err
        ELSE IF ~has_node_ids(nodes, source).val THEN ErrSourceNode
        ELSE NoError

-----------------------------------------------------------------------------
\* power_grid_calculation.py: optimum_tap_position.  The time-series power
\* flow of run() is not modelled; scores[c][t] is the score under criterium c
\* that the summaries give after run() with the transformer at tap position
\* t: the sum of the energy losses, or the mean voltage deviation.

optimization_criteria == {"minimal_deviation_u_pu", "minimal_energy_loss"}

ErrAssertion == Error("AssertionError", "'{optimization_criterium}' is not in {options}")

\* Stands for float("inf"): above every score.
float_inf == MaxScore + 1

\* range(start, stop)
range(start, stop) == [i \in 1..(stop - start) |-> start + i - 1]

\* The body of the loop over tap_range, from its i-th position on.
RECURSIVE tap_loop(_, _, _, _, _, _)
tap_loop(scores, optimization_criterium, tap_range, i, best_score, best_tap) ==
    IF i > Len(tap_range) THEN best_tap
    ELSE LET tap_pos == tap_range[i]
             score == scores[optimization_criterium][tap_pos]
         IN  IF score < best_score
             THEN tap_loop(scores, optimization_criterium, tap_range, i + 1, score, tap_pos)
             ELSE tap_loop(scores, optimization_criterium, tap_range, i + 1, best_score, best_tap)

optimum_tap_position(power_grid, scores, optimization_criterium) ==
    IF optimization_criterium \notin optimization_criteria THEN Raise(ErrAssertion)
    ELSE LET min_tp == power_grid.transformer[1].tap_min
             max_tp == power_grid.transformer[1].tap_max
             tap_range == range(max_tp, min_tp + 1)
         IN  Ret(tap_loop(scores, optimization_criterium, tap_range, 1, float_inf, -1))

\* The component lists given to validate_power_grid_data: any lists within
\* the bounds, with ids that can repeat within a list and across the lists
\* and node references that can miss the nodes.
Lines == [id : MaxNodes..(MaxNodes + 1), from_node : 1..MaxNodes, to_node : 1..MaxNodes]
SymLoads == [id : (MaxNodes + 1)..(MaxNodes + 2), node : 1..MaxNodes]
Sources == [id : {MaxNodes + 2}, node : 1..MaxNodes]
Transformers ==
    [id : (MaxNodes + 2)..(MaxNodes + 3), from_node : 1..MaxNodes, to_node : 1..MaxNodes,
     tap_min : {0}, tap_max : {0}, tap_pos : {0}]
TapPositions == (-MaxTap)..MaxTap
NoScores == [c \in optimization_criteria |-> [t \in TapPositions |-> 0]]
ValidationArgs ==
    [power_grid :
        [node : SeqsUpTo([id : 1..MaxNodes], MaxNodes),
         line : SeqsUpTo(Lines, MaxBranches),
         source : SeqsUpTo(Sources, MaxNodes),
         sym_load : SeqsUpTo(SymLoads, MaxBranches),
         transformer : SeqsUpTo(Transformers, MaxNodes)],
     scores : {NoScores}]

\* Valid power grids whose transformer has any tap_min and tap_max, either
\* of them the larger, with any scores of the tap positions.
TapArgs ==
    [power_grid :
        [node : {[i \in 1..MaxNodes |-> [id |-> i]]},
         line : {<<>>},
         source : {<<[id |-> MaxNodes + 2, node |-> 1]>>},
         sym_load : {<<[id |-> MaxNodes + 1, node |-> MaxNodes]>>},
         transformer :
            {<<t>> : t \in {u \in [id : {MaxNodes + 3}, from_node : {1}, to_node : {MaxNodes},
                                  tap_min : TapPositions, tap_max : TapPositions,
                                  tap_pos : TapPositions] : u.tap_pos = u.tap_min}}],
     scores : [optimization_criteria -> [TapPositions -> 0..MaxScore]]]

InitGrid ==
    /\ pc = "new"
    /\ args \in ValidationArgs \cup TapArgs
    /\ graph = EmptyGraph
    /\ raised = NoError
    /\ call = NoCall
    /\ frame = NoFrame

\* validate_power_grid_data(power_grid), as PowerGrid.__init__ calls it
ValidatePowerGridData ==
    /\ pc = "new"
    /\ raised' = validate_power_grid_data(args.power_grid)
    /\ pc' = IF raised' = NoError THEN "validated" ELSE "failed"
    /\ UNCHANGED <<args, graph, call, frame>>

\* optimum_tap_position(power_grid, optimization_criterium) on a validated grid
OptimumTapPosition ==
    /\ pc = "validated"
    /\ call.op = "none"
    /\ \E optimization_criterium \in optimization_criteria \cup {"other"} :
        LET r == optimum_tap_position(args.power_grid, args.scores, optimization_criterium)
        IN  call' = [op |-> "optimum_tap_position", edge_id |-> 0, status |-> FALSE,
                     err |-> r.err, ret |-> r.val,
                     optimization_criterium |-> optimization_criterium]
    /\ UNCHANGED <<pc, args, graph, raised, frame>>

\* The caller has looked at the tap position and asks again.
TapReturn ==
    /\ pc = "validated"
    /\ call.op # "none"
    /\ call' = NoCall
    /\ UNCHANGED <<pc, args, graph, raised, frame>>

NextGrid ==
    \/ ValidatePowerGridData
    \/ OptimumTapPosition
    \/ TapReturn

SpecGrid == InitGrid /\ [][NextGrid]_vars

-----------------------------------------------------------------------------
\* Graph theory the properties are stated in, over a vertex set and a set of
\* endpoint pairs, independent of the adjacency lists and of the traversals.

\* The vertices joined to a vertex of S by a path over the pairs K.
RECURSIVE Closure(_, _)
Closure(K, S) ==
    LET more == S \cup {k[1] : k \in {x \in K : x[2] \in S}}
                  \cup {k[2] : k \in {x \in K : x[1] \in S}}
    IN  IF more = S THEN S ELSE Closure(K, more)

ConnectsAll(V, K) == \A s \in V : Closure(K, {s}) = V

\* K has a cycle: a self-loop, or an edge whose endpoints stay joined without it.
HasCycle(K) == \E k \in K : k[1] = k[2] \/ k[2] \in Closure(K \ {k}, {k[1]})

Vertices(G) == Range(G.nodes)
EdgeKeys(G) == DOMAIN G.data
EnabledKeys(G) == {k \in DOMAIN G.data : G.data[k].enabled}
DisabledKeys(G) == {k \in DOMAIN G.data : ~G.data[k].enabled}
EdgeIds(G) == {G.data[k].id : k \in DOMAIN G.data}
KeyOfId(G, id) == CHOOSE k \in DOMAIN G.data : G.data[k].id = id

\* The spanning-tree state: the source is a vertex and the enabled edges
\* are |V| - 1 pairs that join every vertex to the source without a cycle.
SpanningTree(G) ==
    /\ G.source_vertex_id \in Vertices(G)
    /\ Cardinality(EnabledKeys(G)) = Cardinality(Vertices(G)) - 1
    /\ Closure(EnabledKeys(G), {G.source_vertex_id}) = Vertices(G)
    /\ ~HasCycle(EnabledKeys(G))

\* The edges the constructor stores for its arguments: one per endpoint pair,
\* with the id and flag of the last list entry that names the pair.
EntriesOf(a, k) == {i \in 1..Len(a.edge_vertex_id_pairs) :
                        Key(a.edge_vertex_id_pairs[i][1], a.edge_vertex_id_pairs[i][2]) = k}
LastEntry(a, k) == CHOOSE i \in EntriesOf(a, k) : \A j \in EntriesOf(a, k) : j <= i
ArgKeys(a) == {Key(a.edge_vertex_id_pairs[i][1], a.edge_vertex_id_pairs[i][2]) :
                    i \in 1..Len(a.edge_vertex_id_pairs)}
ArgEnabledKeys(a) == {k \in ArgKeys(a) : a.edge_enabled[LastEntry(a, k)]}
ArgVertices(a) == Range(a.vertex_ids)

\* The construction checks, numbered in the order of the claim.  Checks 1-6
\* read the lists; checks 7 and 8 read the graph, which exists once 1-6 hold.
ListCheckFails(c, a) ==
    CASE c = 1 -> Cardinality(Range(a.vertex_ids)) # Len(a.vertex_ids)
      [] c = 2 -> Cardinality(Range(a.edge_ids)) # Len(a.edge_ids)
      [] c = 3 -> Len(a.edge_vertex_id_pairs) # Len(a.edge_ids)
      [] c = 4 -> \E i \in 1..Len(a.edge_vertex_id_pairs) :
                    {a.edge_vertex_id_pairs[i][1], a.edge_vertex_id_pairs[i][2]}
                        \ ArgVertices(a) # {}
      [] c = 5 -> Len(a.edge_enabled) # Len(a.edge_ids)
      [] c = 6 -> a.source_vertex_id \notin ArgVertices(a)

GraphCheckFails(c, a) ==
    CASE c = 7 -> ~ConnectsAll(ArgVertices(a), ArgEnabledKeys(a))
      [] c = 8 -> HasCycle(ArgEnabledKeys(a))

ListChecksViolated(a) == {c \in 1..6 : ListCheckFails(c, a)}
ChecksViolated(a) ==
    IF ListChecksViolated(a) # {} THEN ListChecksViolated(a)
    ELSE {c \in 7..8 : GraphCheckFails(c, a)}

ErrorOfCheck(c) ==
    CASE c = 1 -> ErrVertexIdsNotUnique
      [] c = 2 -> ErrEdgeIdsNotUnique
      [] c = 3 -> ErrPairsLength
      [] c = 4 -> ErrPairsVertex
      [] c = 5 -> ErrEnabledLength
      [] c = 6 -> ErrSourceVertex
      [] c = 7 -> ErrNotConnected
      [] c = 8 -> ErrCycle

-----------------------------------------------------------------------------
\* C1: the constructor raises the error of the earliest violated check, in the
\* order vertex-id uniqueness, edge-id uniqueness, pair-length match, endpoint
\* validity, flag-length match, source membership, connectivity, acyclicity,
\* whatever later checks the input violates as well; an input that violates
\* no check raises nothing.
C1_FirstViolatedCheckIsRaised ==
    [][pc = "new" =>
        /\ raised' = IF ChecksViolated(args) = {} THEN NoError
                     ELSE ErrorOfCheck(MinOf(ChecksViolated(args)))
        /\ pc' = IF ChecksViolated(args) = {} THEN "ready" ELSE "failed"]_vars

\* An input that violates three list checks and raises the error of the first.
C1_Witness ==
    /\ pc = "failed"
    /\ Cardinality(ChecksViolated(args)) >= 3
    /\ 1 \notin ChecksViolated(args)
    /\ raised = ErrorOfCheck(MinOf(ChecksViolated(args)))

\* C2: right after a successful construction the enabled edges of the graph
\* are exactly |vertices| - 1, join every vertex to the source and hold no
\* cycle.
C2_ConstructedGraphIsSpanningTree ==
    [][pc = "new" /\ pc' = "ready" => SpanningTree(graph')]_vars

\* A constructed three-vertex tree that also stores a disabled edge.
C2_Witness ==
    /\ pc = "ready"
    /\ SpanningTree(graph)
    /\ Cardinality(Vertices(graph)) = 3
    /\ DisabledKeys(graph) # {}

\* C9: when the enabled edges do not join every vertex the constructor raises
\* GraphNotFullyConnectedError, also when the enabled and disabled edges
\* together would join them.
C9_DisabledEdgesDoNotConnect ==
    [][(/\ pc = "new"
        /\ ListChecksViolated(args) = {}
        /\ ~ConnectsAll(ArgVertices(args), ArgEnabledKeys(args)))
       => pc' = "failed" /\ raised' = ErrNotConnected]_vars

\* The error is raised for a graph that all its edges together connect.
C9_Witness ==
    /\ pc = "failed"
    /\ raised = ErrNotConnected
    /\ Cardinality(ArgVertices(args)) = 3
    /\ ConnectsAll(ArgVertices(args), ArgKeys(args))

\* C10: the constructor raises GraphCycleError when the enabled edges join all
\* vertices and hold a cycle, and never when the enabled edges hold no cycle,
\* that is when every cycle of the graph has a disabled edge on it.
C10_CycleErrorIffEnabledCycle ==
    [][(pc = "new" /\ ListChecksViolated(args) = {}) =>
        /\ (ConnectsAll(ArgVertices(args), ArgEnabledKeys(args))
              /\ HasCycle(ArgEnabledKeys(args)))
            => (pc' = "failed" /\ raised' = ErrCycle)
        /\ ~HasCycle(ArgEnabledKeys(args)) => raised' # ErrCycle]_vars

\* A triangle of enabled edges, without self-loops, is refused.
C10_Witness ==
    /\ pc = "failed"
    /\ raised = ErrCycle
    /\ \A k \in ArgEnabledKeys(args) : k[1] # k[2]

-----------------------------------------------------------------------------
\* Edges of the object by id.

HasEdge(G, id) == id \in EdgeIds(G)
IsEnabledId(G, id) == HasEdge(G, id) /\ G.data[KeyOfId(G, id)].enabled
IsDisabledId(G, id) == HasEdge(G, id) /\ ~G.data[KeyOfId(G, id)].enabled
DisabledIds(G) == {G.data[k].id : k \in DisabledKeys(G)}

\* The vertices cut off from the source when the edge is taken away.
Downstream(G, id) ==
    Vertices(G) \ Closure(EnabledKeys(G) \ {KeyOfId(G, id)}, {G.source_vertex_id})

\* The enabled pairs after edge e is disabled and edge d enabled.
Swapped(G, e, d) == (EnabledKeys(G) \ {KeyOfId(G, e)}) \cup {KeyOfId(G, d)}

Called(op) == call.op = op

\* C3: in a spanning-tree state find_downstream_vertices of an enabled edge
\* returns exactly the vertices whose path to the source runs through the
\* edge: the far endpoint of the edge and what hangs below it, never the
\* near endpoint, whichever vertex is the source.
C3_DownstreamIsFarSideOfEdge ==
    (Called("find_downstream_vertices") /\ SpanningTree(graph) /\ IsEnabledId(graph, call.edge_id))
    => /\ call.err = NoError
       /\ Range(call.ret) = Downstream(graph, call.edge_id)
       /\ LET k == KeyOfId(graph, call.edge_id)
          IN  /\ Cardinality({k[1], k[2]} \cap Range(call.ret)) = 1
              /\ graph.source_vertex_id \notin Range(call.ret)

\* The far endpoint is the first endpoint of the edge as G.edges yields it,
\* and a further vertex hangs below it.
C3_Witness ==
    /\ Called("find_downstream_vertices")
    /\ SpanningTree(graph)
    /\ IsEnabledId(graph, call.edge_id)
    /\ Len(call.ret) = 2
    /\ KeyOfId(graph, call.edge_id)[1] \in Range(call.ret)

\* C4: in a spanning-tree state find_alternative_edges of an enabled edge e
\* returns exactly the disabled edges d for which the enabled edges, with e
\* disabled and d enabled, join all vertices; and each returned d leaves
\* them a spanning tree, without a cycle.
C4_AlternativesRestoreSpanningTree ==
    (Called("find_alternative_edges") /\ SpanningTree(graph) /\ IsEnabledId(graph, call.edge_id))
    => /\ call.err = NoError
       /\ Range(call.ret) =
            {d \in DisabledIds(graph) :
                ConnectsAll(Vertices(graph), Swapped(graph, call.edge_id, d))}
       /\ \A d \in Range(call.ret) :
            /\ ~HasCycle(Swapped(graph, call.edge_id, d))
            /\ Cardinality(Swapped(graph, call.edge_id, d)) = Cardinality(Vertices(graph)) - 1

\* A disabled edge is returned as the alternative of an enabled one.
C4_Witness ==
    /\ Called("find_alternative_edges")
    /\ SpanningTree(graph)
    /\ IsEnabledId(graph, call.edge_id)
    /\ call.ret # <<>>

\* C5: in every state find_alternative_edges(e) returns neither e nor an
\* edge d for which the enabled edges, with e disabled and d enabled, are
\* disconnected or hold a cycle.
C5_AlternativesNeverCyclic ==
    (Called("find_alternative_edges") /\ call.err = NoError)
    => /\ call.edge_id \notin Range(call.ret)
       /\ \A d \in Range(call.ret) :
            /\ ConnectsAll(Vertices(graph), Swapped(graph, call.edge_id, d))
            /\ ~HasCycle(Swapped(graph, call.edge_id, d))

\* C6: set_edge_enabled_status raises IDNotFoundError for an id that is no
\* edge, EdgeAlreadyDisabledError for the disable of a disabled edge, and
\* otherwise returns with the flag of the edge equal to status, also when
\* an enabled edge is enabled again; a raise changes nothing.
C6_SetEdgeEnabledStatusOutcome ==
    [][call'.op = "set_edge_enabled_status" =>
        LET id == call'.edge_id
        IN  IF ~HasEdge(graph, id)
            THEN call'.err.type = "IDNotFoundError" /\ graph' = graph
            ELSE IF IsDisabledId(graph, id) /\ call'.status = FALSE
            THEN call'.err.type = "EdgeAlreadyDisabledError" /\ graph' = graph
            ELSE /\ call'.err = NoError
                 /\ graph'.data[KeyOfId(graph, id)].enabled = call'.status]_vars

\* An enabled edge is enabled again and the call returns.
C6_Witness ==
    /\ Called("set_edge_enabled_status")
    /\ call.status = TRUE
    /\ call.err = NoError
    /\ SpanningTree(graph)
    /\ IsEnabledId(graph, call.edge_id)

\* C7: in every state find_downstream_vertices raises IDNotFoundError for an
\* id that is no edge and returns the empty list for a disabled edge.
C7_DownstreamOfUnknownOrDisabledEdge ==
    Called("find_downstream_vertices")
    => /\ ~HasEdge(graph, call.edge_id) => call.err.type = "IDNotFoundError"
       /\ IsDisabledId(graph, call.edge_id) => (call.err = NoError /\ call.ret = <<>>)

\* The empty list for a disabled edge while the source is no vertex.
C7_Witness ==
    /\ Called("find_downstream_vertices")
    /\ IsDisabledId(graph, call.edge_id)
    /\ graph.source_vertex_id \notin Vertices(graph)
    /\ call.ret = <<>>
    /\ call.err = NoError

\* C8: find_alternative_edges raises IDNotFoundError for an id that is no
\* edge and EdgeAlreadyDisabledError for a disabled edge; it returns a list
\* only for an enabled edge.
C8_AlternativesOfUnknownOrDisabledEdge ==
    Called("find_alternative_edges")
    => /\ ~HasEdge(graph, call.edge_id) => call.err.type = "IDNotFoundError"
       /\ IsDisabledId(graph, call.edge_id) => call.err.type = "EdgeAlreadyDisabledError"
       /\ call.err = NoError => IsEnabledId(graph, call.edge_id)

\* The query of a disabled edge raises.
C8_Witness ==
    /\ Called("find_alternative_edges")
    /\ IsDisabledId(graph, call.edge_id)
    /\ call.err = ErrAlreadyDisabled(call.edge_id)

-----------------------------------------------------------------------------
\* The ids of the edges in the order of G.edges.
IdsInEdgeOrder(G) == [i \in 1..Len(edges(G)) |-> EdgeData(G, edges(G)[i]).id]

\* C11: find_alternative_edges returns the accepted candidates in the order
\* in which G.edges yields them, not sorted by id: the list is the sequence
\* of edge ids in edge order, cut down to the disabled edges whose exchange
\* for the queried edge joins all vertices; it is empty when there is none.
C11_AlternativesInEdgeOrder ==
    (Called("find_alternative_edges") /\ call.err = NoError)
    => LET Accepted(d) ==
              /\ d \in DisabledIds(graph)
              /\ ConnectsAll(Vertices(graph), Swapped(graph, call.edge_id, d))
       IN  call.ret = SelectSeq(IdsInEdgeOrder(graph), Accepted)

\* Two alternatives are returned with the larger id first.
C11_Witness ==
    /\ Called("find_alternative_edges")
    /\ call.err = NoError
    /\ Len(call.ret) = 2
    /\ call.ret[1] > call.ret[2]

\* C12: the list find_downstream_vertices returns rises strictly, so it is
\* sorted by vertex id and holds no vertex twice; the call leaves the graph
\* as it was, and the same call made again gives the same outcome.
C12_DownstreamSortedAndIdempotent ==
    [][call'.op = "find_downstream_vertices" =>
        /\ graph' = graph
        /\ call'.err = NoError =>
              \A i \in 1..Len(call'.ret) : \A j \in 1..Len(call'.ret) :
                  i < j => call'.ret[i] < call'.ret[j]
        /\ LET again == find_downstream_vertices(graph', call'.edge_id)
           IN  again.err = call'.err /\ again.val = call'.ret]_vars

\* Three vertices are downstream of the edge.
C12_Witness ==
    /\ Called("find_downstream_vertices")
    /\ call.err = NoError
    /\ Len(call.ret) = 3

\* C13: while source_vertex_id is no vertex of the graph,
\* find_downstream_vertices of an enabled edge raises IDNotFoundError, the
\* error of the source vertex check, and returns no list.
C13_DownstreamWithUnknownSourceRaises ==
    (/\ Called("find_downstream_vertices")
     /\ graph.source_vertex_id \notin Vertices(graph)
     /\ IsEnabledId(graph, call.edge_id))
    => call.err = ErrSourceVertex /\ call.ret = <<>>

\* The source was reassigned to 0 and the query of an enabled edge raised.
C13_Witness ==
    /\ Called("find_downstream_vertices")
    /\ graph.source_vertex_id = 0
    /\ IsEnabledId(graph, call.edge_id)
    /\ call.err.type = "IDNotFoundError"

\* C14: set_edge_enabled_status does not look at the spanning tree: the
\* disable of an enabled edge and the enable of a disabled edge always
\* return, and change that one flag and nothing else, whether or not the
\* enabled edges are connected and free of cycles afterwards.  Each flag can
\* so be set from every state, and every assignment of flags is reached.
C14_TogglesAreNotValidated ==
    [][(/\ call'.op = "set_edge_enabled_status"
        /\ HasEdge(graph, call'.edge_id)
        /\ IsEnabledId(graph, call'.edge_id) # call'.status)
       => /\ call'.err = NoError
          /\ graph' = [graph EXCEPT !.data[KeyOfId(graph, call'.edge_id)].enabled
                                        = call'.status]]_vars

\* A toggle has returned and left enabled edges that hold a cycle and do not
\* join all vertices.
C14_Witness ==
    /\ Called("set_edge_enabled_status")
    /\ call.err = NoError
    /\ HasCycle(EnabledKeys(graph))
    /\ ~ConnectsAll(Vertices(graph), EnabledKeys(graph))
    /\ \A k \in EnabledKeys(graph) : k[1] # k[2]

\* C15: find_alternative_edges works on copies: when it has returned or
\* raised, the flags of all edges, the queried edge and the candidates
\* among them, and the source vertex are what they were before the call.
C15_AlternativesLeaveGraphUnchanged ==
    [][call'.op = "find_alternative_edges" => graph' = graph]_vars

\* Alternatives were returned; the queried edge is still enabled and the
\* alternatives are still disabled.
C15_Witness ==
    /\ Called("find_alternative_edges")
    /\ call.err = NoError
    /\ Len(call.ret) = 2
    /\ IsEnabledId(graph, call.edge_id)
    /\ \A d \in Range(call.ret) : IsDisabledId(graph, d)

\* C16: a call of is_edge_enabled, set_edge_enabled_status,
\* find_downstream_vertices or find_alternative_edges that raises leaves the
\* graph as it was, flags, vertices, edges and source, and returns nothing.
C16_FailedCallsLeaveGraphUnchanged ==
    [][(/\ call'.op \in {"is_edge_enabled", "set_edge_enabled_status",
                         "find_downstream_vertices", "find_alternative_edges"}
        /\ call'.err # NoError)
       => graph' = graph /\ call'.ret = <<>>]_vars

\* find_alternative_edges raised after it had disabled the edge in its copy:
\* the edge of the graph is still enabled.
C16_Witness ==
    /\ Called("find_alternative_edges")
    /\ call.err.type = "IDNotFoundError"
    /\ IsEnabledId(graph, call.edge_id)
    /\ DisabledKeys(graph) # {}

\* C17: for every edge id supplied to the constructor, also one of two
\* entries with the same endpoints, is_edge_enabled returns the flag of the
\* edge, right after construction the flag that was supplied for it; it
\* raises IDNotFoundError for exactly the ids that were not supplied.
C17_IsEdgeEnabledKnowsSuppliedIds ==
    [][/\ (pc = "new" /\ pc' = "ready") =>
            \A i \in 1..Len(args.edge_ids) :
                /\ is_edge_enabled(graph', args.edge_ids[i]).err = NoError
                /\ is_edge_enabled(graph', args.edge_ids[i]).val = args.edge_enabled[i]
       /\ call'.op = "is_edge_enabled" =>
            IF call'.edge_id \in Range(args.edge_ids)
            THEN /\ call'.err = NoError
                 /\ HasEdge(graph, call'.edge_id)
                 /\ call'.ret = graph.data[KeyOfId(graph, call'.edge_id)].enabled
            ELSE call'.err.type = "IDNotFoundError"]_vars

\* The pairs of positions i < j of a list that hold the same value.
DuplicatePositions(ids) ==
    {p \in (1..Len(ids)) \X (1..Len(ids)) : p[1] < p[2] /\ ids[p[1]] = ids[p[2]]}

\* C18, as stated: a vertex id list with the same value at positions i < j
\* makes the constructor raise IDNotUniqueError, and the error names the two
\* positions.
C18_DuplicateErrorNamesPositions ==
    [][(pc = "new" /\ DuplicatePositions(args.vertex_ids) # {}) =>
        /\ pc' = "failed"
        /\ raised'.type = "IDNotUniqueError"
        /\ \E p \in DuplicatePositions(args.vertex_ids) :
              {p[1], p[2]} \subseteq Range(raised'.refs)]_vars

\* C18, amended: a vertex id list with the same value at two positions makes
\* the constructor raise IDNotUniqueError with the fixed message "Input list
\* vertex_ids contains a duplicate id.", which names the list and formats
\* no position and no value into it.
C18_DuplicateErrorNamesList ==
    [][(pc = "new" /\ DuplicatePositions(args.vertex_ids) # {}) =>
        /\ pc' = "failed"
        /\ raised' = ErrVertexIdsNotUnique
        /\ raised'.refs = <<>>]_vars

\* The vertex ids and the edge ids both hold a value twice, and the error is
\* the one of the vertex ids.
C18_Witness ==
    /\ pc = "failed"
    /\ DuplicatePositions(args.vertex_ids) # {}
    /\ DuplicatePositions(args.edge_ids) # {}
    /\ raised = ErrVertexIdsNotUnique

\* C19: is_cyclic returns True exactly when the graph it is called on holds
\* a cycle, in whichever component the cycle lies: called on the object it
\* answers for all edges, called on the filtered graph for the enabled ones.
C19_IsCyclicIffCycle ==
    /\ (Called("is_cyclic") /\ call.err = NoError)
        => call.ret = HasCycle(EdgeKeys(graph))
    /\ (Called("is_cyclic_filtered") /\ call.err = NoError)
        => call.ret = HasCycle(EnabledKeys(graph))

\* C20: called on the object itself is_cyclic walks the disabled edges too
\* and returns True when a disabled edge closes the only cycles; called on
\* the graph filter_disabled_edges makes of it, it returns False whenever
\* the enabled edges hold no cycle.
C20_DisabledEdgesCountOnlyUnfiltered ==
    /\ (/\ Called("is_cyclic")
        /\ graph.source_vertex_id \in Vertices(graph)
        /\ HasCycle(EdgeKeys(graph)))
       => call.err = NoError /\ call.ret = TRUE
    /\ (/\ Called("is_cyclic_filtered")
        /\ graph.source_vertex_id \in Vertices(graph)
        /\ ~HasCycle(EnabledKeys(graph)))
       => call.err = NoError /\ call.ret = FALSE

\* The object is a spanning tree with a disabled edge that would close a
\* cycle of three or more edges, and is_cyclic on the object returns True.
C20_Witness ==
    /\ Called("is_cyclic")
    /\ SpanningTree(graph)
    /\ \A k \in EdgeKeys(graph) : k[1] # k[2]
    /\ call.err = NoError
    /\ call.ret = TRUE

-----------------------------------------------------------------------------
\* C21: on every finite graph is_cyclic and the connectivity check terminate:
\* the edge traversal yields each edge at most once, the backtracking loop
\* pops no more edges than were appended and leaves by a matching path top
\* or an empty path, never by an exception, the number of loop iterations
\* stays within 5 * |edges| + |vertices| + 1, and every run ends.
TraversalIsBounded ==
    /\ \A i, j \in DOMAIN frame.yielded :
            Key(frame.yielded[i][1], frame.yielded[i][2])
                = Key(frame.yielded[j][1], frame.yielded[j][2]) => i = j
    /\ \A i \in DOMAIN frame.yielded :
            Key(frame.yielded[i][1], frame.yielded[i][2]) \in DOMAIN graph.data
    /\ frame.pops <= Len(frame.yielded)
    /\ frame.err # ErrKeyError
    /\ frame.exit = "matched" /\ frame.pc = "append" =>
            frame.edges # <<>> /\ Last(frame.edges)[2] = frame.edge[1]
    /\ frame.exit = "empty" /\ frame.pc = "append" => frame.edges = <<>>
    /\ frame.steps <= 5 * Cardinality(DOMAIN graph.data) + Len(graph.nodes) + 1

C21_TraversalsTerminate == []TraversalIsBounded /\ <>(frame.pc = "done")

\* A cycle check that popped its path down to the empty path, yielded every
\* edge of a tree on MaxV + 1 vertices and found no cycle.
C21_Witness ==
    /\ frame.pc = "done"
    /\ frame.op = "is_cyclic"
    /\ frame.ret = FALSE
    /\ frame.err = NoError
    /\ frame.pops >= 2
    /\ frame.exit = "empty"
    /\ Len(frame.yielded) = Cardinality(DOMAIN graph.data)
    /\ Len(frame.yielded) = MaxV

-----------------------------------------------------------------------------
\* C22: filter_disabled_edges returns a graph with the vertices and the
\* source of its argument and exactly the enabled edges of its argument, each
\* with its id and endpoints and marked enabled, and leaves the argument as
\* it was.
C22_FilterKeepsEnabledEdgesOnly ==
    [][call'.op = "filter_disabled_edges" =>
        /\ graph' = graph
        /\ call'.err = NoError =>
            LET filtered == call'.ret
            IN  /\ filtered.nodes = graph.nodes
                /\ filtered.source_vertex_id = graph.source_vertex_id
                /\ DOMAIN filtered.data = EnabledKeys(graph)
                /\ \A k \in DOMAIN filtered.data :
                        filtered.data[k] = [id |-> graph.data[k].id, enabled |-> TRUE]
                /\ \A n \in DOMAIN filtered.adj :
                        /\ Range(filtered.adj[n]) = {x \in Vertices(graph) : Key(n, x) \in EnabledKeys(graph)}
                        /\ Len(filtered.adj[n]) = Cardinality(Range(filtered.adj[n]))]_vars

\* A filtered copy that lost an edge and kept a vertex with no enabled edge.
C22_Witness ==
    /\ Called("filter_disabled_edges")
    /\ call.err = NoError
    /\ DisabledKeys(graph) # {}
    /\ EnabledKeys(graph) # {}
    /\ \E n \in Vertices(graph) : call.ret.adj[n] = <<>>

-----------------------------------------------------------------------------
\* C23: when the source is a vertex and neither endpoint of an enabled edge
\* can be reached from it over enabled edges, find_downstream_vertices of
\* that edge returns the empty list and raises nothing.
C23_DownstreamOfUnreachableEdgeIsEmpty ==
    (/\ Called("find_downstream_vertices")
     /\ IsEnabledId(graph, call.edge_id)
     /\ graph.source_vertex_id \in Vertices(graph)
     /\ LET k == KeyOfId(graph, call.edge_id)
            reached == Closure(EnabledKeys(graph), {graph.source_vertex_id})
        IN  k[1] \notin reached /\ k[2] \notin reached)
    => (call.err = NoError /\ call.ret = <<>>)

\* The empty list for an enabled edge between two distinct vertices that the
\* enabled edges cut off from the source.
C23_Witness ==
    /\ Called("find_downstream_vertices")
    /\ IsEnabledId(graph, call.edge_id)
    /\ graph.source_vertex_id \in Vertices(graph)
    /\ LET k == KeyOfId(graph, call.edge_id)
           reached == Closure(EnabledKeys(graph), {graph.source_vertex_id})
       IN  k[1] \notin reached /\ k[2] \notin reached /\ k[1] # k[2]
    /\ call.err = NoError
    /\ call.ret = <<>>

-----------------------------------------------------------------------------
\* C24: after construction no call and no assignment to source_vertex_id
\* changes the vertices, the edges, their ids or their endpoints; a call
\* changes nothing but enabled flags, only set_edge_enabled_status that
\* returns changes one, and only the flag of the edge with the id it was
\* given.
C24_OnlyTargetedFlagChanges ==
    [][pc = "ready" =>
        /\ graph'.nodes = graph.nodes
        /\ graph'.adj = graph.adj
        /\ DOMAIN graph'.data = DOMAIN graph.data
        /\ \A k \in DOMAIN graph.data : graph'.data[k].id = graph.data[k].id
        /\ call'.op # "none" =>
            /\ graph'.source_vertex_id = graph.source_vertex_id
            /\ \A k \in DOMAIN graph.data :
                graph'.data[k].enabled # graph.data[k].enabled =>
                    /\ call'.op = "set_edge_enabled_status"
                    /\ call'.err = NoError
                    /\ graph.data[k].id = call'.edge_id
                    /\ graph'.data[k].enabled = call'.status]_vars

\* A disable that returned and left a graph with several other edges, some
\* enabled and some disabled.
C24_Witness ==
    /\ Called("set_edge_enabled_status")
    /\ call.err = NoError
    /\ call.status = FALSE
    /\ IsDisabledId(graph, call.edge_id)
    /\ Cardinality(EnabledKeys(graph)) >= 2
    /\ Cardinality(DisabledKeys(graph)) >= 2

-----------------------------------------------------------------------------
\* C25: validate_power_grid_data makes its checks in the order: one
\* transformer, one source, no line or transformer from a node to itself,
\* ids unique over all components, line endpoints are nodes, sym_load nodes
\* are nodes, transformer endpoints are nodes, the source node is a node; it
\* raises the error of the first check that fails and returns when none does.
ComponentLists == {"node", "line", "source", "sym_load", "transformer"}
Components(pg) ==
    {x \in ComponentLists \X (1..(MaxNodes + MaxBranches)) : x[2] <= Len(pg[x[1]])}
NodeIds(pg) == {pg.node[i].id : i \in 1..Len(pg.node)}
GridCheckFails(c, pg) ==
    CASE c = 1 -> Len(pg.transformer) # 1
      [] c = 2 -> Len(pg.source) # 1
      [] c = 3 -> \/ \E i \in 1..Len(pg.line) : pg.line[i].from_node = pg.line[i].to_node
                  \/ \E i \in 1..Len(pg.transformer) :
                        pg.transformer[i].from_node = pg.transformer[i].to_node
      [] c = 4 -> \E x, y \in Components(pg) : x # y /\ pg[x[1]][x[2]].id = pg[y[1]][y[2]].id
      [] c = 5 -> \E i \in 1..Len(pg.line) :
                        {pg.line[i].from_node, pg.line[i].to_node} \ NodeIds(pg) # {}
      [] c = 6 -> \E i \in 1..Len(pg.sym_load) : pg.sym_load[i].node \notin NodeIds(pg)
      [] c = 7 -> \E i \in 1..Len(pg.transformer) :
                        {pg.transformer[i].from_node, pg.transformer[i].to_node} \ NodeIds(pg) # {}
      [] c = 8 -> \E i \in 1..Len(pg.source) : pg.source[i].node \notin NodeIds(pg)
ErrorOfGridCheck(c) ==
    CASE c = 1 -> ErrTransformerCount
      [] c = 2 -> ErrSourceCount
      [] c = 3 -> ErrSameNode
      [] c = 4 -> ErrDuplicateIds
      [] c = 5 -> ErrLineNode
      [] c = 6 -> ErrSymLoadNode
      [] c = 7 -> ErrTransformerNode
      [] c = 8 -> ErrSourceNode
GridChecksViolated(pg) == {c \in 1..8 : GridCheckFails(c, pg)}

-----------------------------------------------------------------------------
\* C26: optimum_tap_position returns a tap position between tap_min and
\* tap_max whose score under the chosen criterium is minimal over all the
\* positions between them, the first such position in the order they are
\* examined (upwards from tap_max), and leaves the power grid as it was.
C26_OptimumTapIsInRangeAndMinimal ==
    [][(call'.op = "optimum_tap_position"
            /\ call'.optimization_criterium \in optimization_criteria) =>
        LET transformer == args.power_grid.transformer[1]
            lo == MinOf({transformer.tap_min, transformer.tap_max})
            hi == MaxOf({transformer.tap_min, transformer.tap_max})
            score == args.scores[call'.optimization_criterium]
            best_tap == call'.ret
        IN  /\ args' = args
            /\ call'.err = NoError
            /\ best_tap \in lo..hi
            /\ \A t \in lo..hi : score[best_tap] <= score[t]
            /\ \A t \in transformer.tap_max..(best_tap - 1) : score[best_tap] < score[t]]_vars

-----------------------------------------------------------------------------
\* C27: from a constructed graph on, after every swap of an enabled edge for
\* one of its alternatives, however many swaps came before, both calls of
\* set_edge_enabled_status have returned and the enabled edges are
\* |vertices| - 1 in number, join all vertices and hold no cycle.
C27_SwapsKeepSpanningTree ==
    pc = "ready" =>
        /\ Cardinality(EnabledKeys(graph)) = Cardinality(Vertices(graph)) - 1
        /\ ConnectsAll(Vertices(graph), EnabledKeys(graph))
        /\ ~HasCycle(EnabledKeys(graph))
        /\ Called("swap") =>
            /\ call.err = NoError
            /\ IsDisabledId(graph, call.edge_id)
            /\ IsEnabledId(graph, call.ret[1])

\* The third swap in a row, on a graph of MaxV + 1 vertices.
C27_Witness ==
    /\ Called("swap")
    /\ call.swaps = MaxSwaps
    /\ call.err = NoError
    /\ Cardinality(Vertices(graph)) = MaxV + 1
    /\ SpanningTree(graph)

-----------------------------------------------------------------------------
\* C28: in a spanning-tree state, for an enabled edge e, a disabled edge is
\* among find_alternative_edges(e) exactly when one of its endpoints, and
\* not the other, is among find_downstream_vertices(e).
C28_AlternativesBridgeDownstream ==
    (Called("find_alternative_edges") /\ SpanningTree(graph) /\ IsEnabledId(graph, call.edge_id))
    => LET downstream == find_downstream_vertices(graph, call.edge_id)
       IN  /\ call.err = NoError
           /\ downstream.err = NoError
           /\ \A d \in DisabledIds(graph) :
                d \in Range(call.ret) <=>
                    ((KeyOfId(graph, d)[1] \in Range(downstream.val))
                        # (KeyOfId(graph, d)[2] \in Range(downstream.val)))

\* An enabled edge with several vertices downstream, one disabled edge that
\* bridges the two sides and one that does not.
C28_Witness ==
    /\ Called("find_alternative_edges")
    /\ SpanningTree(graph)
    /\ IsEnabledId(graph, call.edge_id)
    /\ Len(find_downstream_vertices(graph, call.edge_id).val) >= 2
    /\ Range(call.ret) # {}
    /\ DisabledIds(graph) \ Range(call.ret) # {}

-----------------------------------------------------------------------------
\* The case of C29: find_downstream_vertices was called for an enabled edge
\* whose two endpoints can be reached from the source over enabled edges.
ReachableEdgeQueried ==
    /\ Called("find_downstream_vertices")
    /\ IsEnabledId(graph, call.edge_id)
    /\ LET k == KeyOfId(graph, call.edge_id)
           reached == Closure(EnabledKeys(graph), {graph.source_vertex_id})
       IN  k[1] \in reached /\ k[2] \in reached

\* The edge with this id lies on a cycle of enabled edges: it is a self-loop
\* or its endpoints are joined by the other enabled edges as well.
OnEnabledCycle(G, id) ==
    LET k == KeyOfId(G, id)
    IN  k[1] = k[2] \/ k[2] \in Closure(EnabledKeys(G) \ {k}, {k[1]})

ExactlyOneEndpoint(G, id, vs) ==
    (KeyOfId(G, id)[1] \in Range(vs)) # (KeyOfId(G, id)[2] \in Range(vs))

\* C29 as claimed: in every state, cyclic ones included, for an enabled edge
\* whose endpoints can both be reached from the source over enabled edges,
\* find_downstream_vertices returns a non-empty list with exactly one
\* endpoint of the edge and without the source.
C29_DownstreamOfReachableEdgeNonEmpty ==
    ReachableEdgeQueried =>
        /\ call.err = NoError
        /\ call.ret # <<>>
        /\ ExactlyOneEndpoint(graph, call.edge_id, call.ret)
        /\ graph.source_vertex_id \notin Range(call.ret)

\* C29 as amended: for such an edge find_downstream_vertices returns a list
\* without the source that is either empty or holds exactly one endpoint of
\* the edge, and it is empty only for an edge on a cycle of enabled edges.
C29_DownstreamOfReachableEdge ==
    ReachableEdgeQueried =>
        /\ call.err = NoError
        /\ graph.source_vertex_id \notin Range(call.ret)
        /\ call.ret # <<>> => ExactlyOneEndpoint(graph, call.edge_id, call.ret)
        /\ call.ret = <<>> => OnEnabledCycle(graph, call.edge_id)

\* An edge that closes a cycle of enabled edges, no self-loop, is queried and
\* the answer is the empty list.
C29_Witness ==
    /\ ReachableEdgeQueried
    /\ OnEnabledCycle(graph, call.edge_id)
    /\ KeyOfId(graph, call.edge_id)[1] # KeyOfId(graph, call.edge_id)[2]
    /\ call.err = NoError
    /\ call.ret = <<>>

-----------------------------------------------------------------------------
\* C30: disabling an enabled edge and enabling it again restores the state
\* from before the two calls: neither call raises, every enabled flag (the
\* whole stored graph) is as before, and is_edge_enabled,
\* find_downstream_vertices and find_alternative_edges answer for every edge
\* id what they answered before.
C30_DisableThenEnableRestores ==
    Called("disable_then_enable") =>
        /\ call.err = NoError
        /\ graph = call.before
        /\ \A k \in DOMAIN graph.data : graph.data[k].enabled = call.before.data[k].enabled
        /\ QueryResults(graph) = call.results

\* The two calls were made in a state with a disabled edge besides, where the
\* three queries have answers to restore: some edge has vertices downstream
\* and some edge has an alternative.
C30_Witness ==
    /\ Called("disable_then_enable")
    /\ call.err = NoError
    /\ \E k \in DOMAIN graph.data : ~graph.data[k].enabled
    /\ \E id \in DOMAIN call.results :
        /\ call.results[id].find_downstream_vertices.err = NoError
        /\ call.results[id].find_downstream_vertices.val # <<>>
    /\ \E id \in DOMAIN call.results :
        /\ call.results[id].find_alternative_edges.err = NoError
        /\ call.results[id].find_alternative_edges.val # <<>>

====
